---------------------------- MODULE Spec2Model ----------------------------
(***************************************************************************)
(* A model of the maestro migration engine: the repository contract of the *)
(* two backends (PostgreSQL, CockroachDB) and the orchestrator             *)
(* Migrator.Migrate that sequences hooks and migrations against it.        *)
(*                                                                         *)
(* The module holds three families of specifications over one state:       *)
(*   SpecLock      processes competing for DoInLock on one database        *)
(*   SpecValidate  Repository.ValidateMigrations applied to ledgers        *)
(*   SpecMigrate   one Migrator driving the ledger through Migrate() calls *)
(***************************************************************************)
EXTENDS Integers, Sequences, FiniteSets, TLC

(***************************************************************************)
(* Bounds of the model and constants of the program.                       *)
(***************************************************************************)
\* number of processes that call DoInLock against the same database
NumProcs == 2
\* connections of one process's database/sql pool (25 in the program)
PoolSize == 2
\* DoInLock calls one process makes
MaxCalls == 2
\* statements one callback issues
MaxStmts == 1
\* `for range 12` of CockroachRepository.lock
LockAttempts == 12
\* the largest value of the ledger column `version SMALLINT`
MaxSmallint == 32767
\* the largest Migration.Version, a uint16
MaxUint16 == 65535
\* highest version of a ledger row in the gap scenarios of SpecValidate
GapMaxVersion == 7
\* highest version of the ledger rows and local files compared for drift
DriftMaxVersion == 2
\* highest version of a local migration in SpecMigrate
MaxVersion == 3
\* Migrate() calls made on the Migrator
MaxRuns == 2
\* Repair calls made on the repository
MaxRepairs == 2
\* DoInTransaction calls and other operations made on a repository
MaxTxs == 2
MaxOps == 2

Procs == 1 .. NumProcs
Conns == 1 .. PoolSize
Drivers == {"postgres", "cockroachdb"}

VARIABLES
    driver,     \* the backend of the repository (enums.DriverType)
    lockTable,  \* cockroachdb: the table schema_lock exists
    advisory,   \* postgres: holder session and hold count of the advisory key
    pc,         \* where each process is inside DoInLock
    probes,     \* cockroachdb: existence probes made by lock() in this call
    conn,       \* postgres: pool connection that ran pg_advisory_lock
    fnErr,      \* whether the callback of the current call returned an error
    ret,        \* how the last DoInLock call of the process ended
    relErr,     \* the release statement of the last call returned an error
    fnRuns,     \* callback invocations in the current call
    stmts,      \* statements the callback issued in the current call
    calls       \* DoInLock calls started by the process

lockVars == <<lockTable, advisory, pc, probes, conn, fnErr, ret,
              relErr, fnRuns, stmts, calls>>

VARIABLES
    historyTable,   \* the ledger table schema_history exists
    ledger,         \* its rows, keyed by version
    upFiles,        \* the local Up migrations the loader finds
    verrs           \* what the last ValidateMigrations call returned

VARIABLES
    objects,        \* the database objects scripts have created
    config,         \* the Migrator's conf.MigrationConfig
    downFiles,      \* versions that have a Down script in the locations
    hookFiles,      \* the hook files in the locations
    last,           \* the latest Migrate() call: what it read, ran and returned
    prev            \* the Migrate() call before it

VARIABLES
    clock,          \* the database's NOW(); repaired_at 0 stands for NULL
    rep             \* the latest Repair call: what it met and returned

VARIABLES
    queriable,      \* the repository's executor: "db" or the transaction "tx"
    txn,            \* the DoInTransaction call in progress or last finished
    call            \* the latest repository operation: what it met and returned

dbVars == <<historyTable, ledger>>

txVars == <<queriable, txn, call>>

repVars == <<clock, rep>>

migVars == <<objects, config, downFiles, hookFiles, last, prev>>

vars == <<driver, lockVars, dbVars, upFiles, verrs, migVars, repVars, txVars>>

\* what the steps of DoInLock leave alone
notLock == <<driver, dbVars, upFiles, verrs, migVars, repVars, txVars>>

(***************************************************************************)
(* Session-scoped advisory lock of PostgreSQL, as used by                  *)
(* PostgresRepository.DoInLock: the key is held by one session, the same   *)
(* session may take it again (the hold count grows), pg_advisory_unlock    *)
(* from a session that does not hold it releases nothing and is no error.  *)
(***************************************************************************)
NoSession == <<0, 0>>
FreeLock == [holder |-> NoSession, count |-> 0]

AdvisoryGrantable_Shared(adv, s) == TRUE
AdvisoryGrantable(adv, s) == adv.holder = NoSession \/ adv.holder = s

AdvisoryLock(adv, s) == [holder |-> s, count |-> adv.count + 1]

AdvisoryUnlock(adv, s) ==
    IF adv.holder # s THEN adv
    ELSE IF adv.count > 1 THEN [adv EXCEPT !.count = adv.count - 1]
    ELSE FreeLock

\* the sessions of a process end: the server drops the locks they hold
SessionsClosed(adv, p) == IF adv.holder[1] = p THEN FreeLock ELSE adv

(***************************************************************************)
(* CockroachRepository.lock: the loop gives up after LockAttempts probes.  *)
(***************************************************************************)
LockTimedOut_OneMore(n) == n >= LockAttempts + 1
LockTimedOut(n) == n >= LockAttempts

(***************************************************************************)
(* The deferred release of DoInLock: an error of the release statement     *)
(* panics, otherwise the callback's error (or nil) is returned.            *)
(***************************************************************************)
DoInLockOutcome_Swallow(releaseFailed, callbackFailed) ==
    IF callbackFailed THEN "fnerr" ELSE "nil"
DoInLockOutcome(releaseFailed, callbackFailed) ==
    IF releaseFailed THEN "panic"
    ELSE IF callbackFailed THEN "fnerr" ELSE "nil"

\* Destination == nil
NoDestination == <<>>

\* conf.MigrationConfig with the defaults of its struct tags
DefaultConfig ==
    [Validate |-> TRUE, Down |-> FALSE, InTransaction |-> TRUE,
     Destination |-> NoDestination, Force |-> FALSE,
     UseRepeatable |-> TRUE, UseBefore |-> TRUE, UseAfter |-> TRUE,
     UseBeforeEach |-> TRUE, UseAfterEach |-> TRUE,
     UseBeforeVersion |-> TRUE, UseAfterVersion |-> TRUE]

\* no Migrate() call has been made
NoRun ==
    [n |-> 0, ret |-> "none", cfg |-> DefaultConfig, cfgOut |-> DefaultConfig,
     latest |-> 0, differed |-> FALSE, log |-> <<>>, writes |-> 0,
     errs |-> <<>>, before |-> {}, tableBefore |-> FALSE]

\* a Migrator that has not been used, over empty locations
NoMigrator ==
    /\ objects = {}
    /\ config = DefaultConfig
    /\ downFiles = {}
    /\ hookFiles = {}
    /\ last = NoRun
    /\ prev = NoRun

\* Repair has not been called
NoRepair ==
    /\ clock = 1
    /\ rep = [n |-> 0, errs |-> {}, prevErrs |-> {}, before |-> {}, at |-> 0]

\* a repository as its constructor leaves it: queriable is db, no transaction
\* was begun and no operation was called
NoTxn ==
    [pc |-> "idle", n |-> 0, handle |-> "none", ops |-> <<>>,
     work |-> [rows |-> {}, objects |-> {}, log |-> <<>>, errs |-> <<>>,
               writes |-> 0, aborted |-> FALSE],
     before |-> [rows |-> {}, objects |-> {}],
     fnRet |-> "none", ret |-> "none", commitFailed |-> FALSE]

NoCall ==
    [n |-> 0, name |-> "none", version |-> 0, via |-> "db", inFn |-> FALSE,
     afterTx |-> 0, prev |-> <<"none", 0>>,
     scriptFails |-> FALSE, writeFails |-> FALSE, errs |-> <<>>, log |-> <<>>,
     before |-> {}, objectsBefore |-> {}, result |-> 0, failing |-> <<>>]

RepoIdle ==
    /\ queriable = "db"
    /\ txn = NoTxn
    /\ call = NoCall

\* ValidateMigrations has not returned yet
NotValidated == [called |-> FALSE, errs |-> <<>>]

\* the state of a database nobody has migrated, with no local files
NoLedger ==
    /\ historyTable = FALSE
    /\ ledger = {}
    /\ upFiles = {}
    /\ verrs = NotValidated

LockIdle ==
    /\ lockTable = FALSE
    /\ advisory = FreeLock
    /\ pc = [p \in Procs |-> "idle"]
    /\ probes = [p \in Procs |-> 0]
    /\ conn = [p \in Procs |-> 0]
    /\ fnErr = [p \in Procs |-> FALSE]
    /\ ret = [p \in Procs |-> "none"]
    /\ relErr = [p \in Procs |-> FALSE]
    /\ fnRuns = [p \in Procs |-> 0]
    /\ stmts = [p \in Procs |-> 0]
    /\ calls = [p \in Procs |-> 0]

InitLock ==
    /\ driver \in Drivers
    /\ LockIdle
    /\ NoLedger
    /\ NoMigrator
    /\ NoRepair
    /\ RepoIdle

\* a new DoInLock call starts: the per-call bookkeeping is reset
StartCall(p, where) ==
    /\ pc[p] = "idle"
    /\ calls[p] < MaxCalls
    /\ calls' = [calls EXCEPT ![p] = @ + 1]
    /\ pc' = [pc EXCEPT ![p] = where]
    /\ probes' = [probes EXCEPT ![p] = 0]
    /\ fnErr' = [fnErr EXCEPT ![p] = FALSE]
    /\ ret' = [ret EXCEPT ![p] = "none"]
    /\ relErr' = [relErr EXCEPT ![p] = FALSE]
    /\ fnRuns' = [fnRuns EXCEPT ![p] = 0]
    /\ stmts' = [stmts EXCEPT ![p] = 0]

\* DoInLock returns (or panics) with outcome r
EndCall(p, r) ==
    /\ pc' = [pc EXCEPT ![p] = IF r = "panic" THEN "panicked" ELSE "idle"]
    /\ ret' = [ret EXCEPT ![p] = r]
    /\ conn' = [conn EXCEPT ![p] = 0]
    /\ fnErr' = [fnErr EXCEPT ![p] = FALSE]
    /\ stmts' = [stmts EXCEPT ![p] = 0]

(***************************************************************************)
(* CockroachDB: DoInLock -> lock(): probe information_schema for the       *)
(* marker table, create it when absent, else sleep and probe again.        *)
(***************************************************************************)
CrDoInLock(p) ==
    /\ driver = "cockroachdb"
    /\ StartCall(p, "probe")
    /\ UNCHANGED <<notLock, lockTable, advisory, conn>>

CrProbe(p) ==
    /\ driver = "cockroachdb"
    /\ pc[p] = "probe"
    /\ probes' = [probes EXCEPT ![p] = @ + 1]
    /\ IF ~lockTable
       THEN /\ pc' = [pc EXCEPT ![p] = "create"]
            /\ UNCHANGED <<ret, conn, fnErr, stmts>>
       ELSE IF LockTimedOut(probes[p] + 1)
            THEN EndCall(p, "timeout")
            ELSE UNCHANGED <<pc, ret, conn, fnErr, stmts>>
    /\ UNCHANGED <<notLock, lockTable, advisory, relErr, fnRuns, calls>>

\* the probe or the CREATE TABLE statement returns an error: lock() returns it
CrLockError(p) ==
    /\ driver = "cockroachdb"
    /\ pc[p] \in {"probe", "create"}
    /\ EndCall(p, "lockerr")
    /\ UNCHANGED <<notLock, lockTable, advisory, probes, relErr, fnRuns, calls>>

\* CREATE TABLE IF NOT EXISTS schema_lock: succeeds whether or not it exists
CrCreate(p) ==
    /\ driver = "cockroachdb"
    /\ pc[p] = "create"
    /\ lockTable' = TRUE
    /\ pc' = [pc EXCEPT ![p] = "fn"]
    /\ fnRuns' = [fnRuns EXCEPT ![p] = @ + 1]
    /\ UNCHANGED <<notLock, advisory, probes, conn, fnErr, ret, relErr, stmts,
                   calls>>

\* unlock(): DROP TABLE IF EXISTS schema_lock, then the deferred function ends
CrUnlock(p, failed) ==
    /\ driver = "cockroachdb"
    /\ pc[p] = "release"
    /\ lockTable' = IF failed THEN lockTable ELSE FALSE
    /\ relErr' = [relErr EXCEPT ![p] = failed]
    /\ EndCall(p, DoInLockOutcome(failed, fnErr[p]))
    /\ UNCHANGED <<notLock, advisory, probes, fnRuns, calls>>

(***************************************************************************)
(* PostgreSQL: DoInLock sends pg_advisory_lock on a connection the pool    *)
(* picks; the statement blocks until the key can be granted to it.  The    *)
(* release is sent through the pool again.                                 *)
(***************************************************************************)
PgDoInLock(p, c) ==
    /\ driver = "postgres"
    /\ StartCall(p, "wait")
    /\ conn' = [conn EXCEPT ![p] = c]
    /\ UNCHANGED <<notLock, lockTable, advisory>>

PgLockGranted(p) ==
    /\ driver = "postgres"
    /\ pc[p] = "wait"
    /\ AdvisoryGrantable(advisory, <<p, conn[p]>>)
    /\ advisory' = AdvisoryLock(advisory, <<p, conn[p]>>)
    /\ pc' = [pc EXCEPT ![p] = "fn"]
    /\ fnRuns' = [fnRuns EXCEPT ![p] = @ + 1]
    /\ UNCHANGED <<notLock, lockTable, probes, conn, fnErr, ret, relErr, stmts,
                   calls>>

\* the lock statement returns an error: "failed to acquire advisory lock"
PgLockError(p) ==
    /\ driver = "postgres"
    /\ pc[p] = "wait"
    /\ EndCall(p, "lockerr")
    /\ UNCHANGED <<notLock, lockTable, advisory, probes, relErr, fnRuns, calls>>

\* select pg_advisory_unlock($1) on pool connection c
PgUnlock(p, c, failed) ==
    /\ driver = "postgres"
    /\ pc[p] = "release"
    /\ advisory' = IF failed THEN advisory ELSE AdvisoryUnlock(advisory, <<p, c>>)
    /\ relErr' = [relErr EXCEPT ![p] = failed]
    /\ EndCall(p, DoInLockOutcome(failed, fnErr[p]))
    /\ UNCHANGED <<notLock, lockTable, probes, fnRuns, calls>>

(***************************************************************************)
(* The callback fn() of DoInLock, seen from the lock: it issues statements *)
(* and returns nil or an error.                                            *)
(***************************************************************************)
FnStatement_Anywhere(p) ==
    /\ pc[p] \in {"fn", "release"}
    /\ stmts[p] < MaxStmts
    /\ stmts' = [stmts EXCEPT ![p] = @ + 1]
    /\ UNCHANGED <<notLock, lockTable, advisory, pc, probes, conn, fnErr, ret,
                   relErr, fnRuns, calls>>
FnStatement(p) ==
    /\ pc[p] = "fn"
    /\ stmts[p] < MaxStmts
    /\ stmts' = [stmts EXCEPT ![p] = @ + 1]
    /\ UNCHANGED <<notLock, lockTable, advisory, pc, probes, conn, fnErr, ret,
                   relErr, fnRuns, calls>>

FnReturn(p, failed) ==
    /\ pc[p] = "fn"
    /\ fnErr' = [fnErr EXCEPT ![p] = failed]
    /\ pc' = [pc EXCEPT ![p] = "release"]
    /\ UNCHANGED <<notLock, lockTable, advisory, probes, conn, ret, relErr,
                   fnRuns, stmts, calls>>

\* cleanup of ConnectToDatabase (db.Close()) or the end of a panicked process
CloseDB(p) ==
    /\ \/ pc[p] = "panicked"
       \/ pc[p] = "idle" /\ calls[p] > 0
    /\ pc' = [pc EXCEPT ![p] = "closed"]
    /\ advisory' = SessionsClosed(advisory, p)
    /\ UNCHANGED <<notLock, lockTable, probes, conn, fnErr, ret, relErr, fnRuns,
                   stmts, calls>>

NextLock ==
    \/ \E p \in Procs : CrDoInLock(p)
    \/ \E p \in Procs : CrProbe(p)
    \/ \E p \in Procs : CrLockError(p)
    \/ \E p \in Procs : CrCreate(p)
    \/ \E p \in Procs, failed \in BOOLEAN : CrUnlock(p, failed)
    \/ \E p \in Procs, c \in Conns : PgDoInLock(p, c)
    \/ \E p \in Procs : PgLockGranted(p)
    \/ \E p \in Procs : PgLockError(p)
    \/ \E p \in Procs, c \in Conns, failed \in BOOLEAN : PgUnlock(p, c, failed)
    \/ \E p \in Procs : FnStatement(p)
    \/ \E p \in Procs, failed \in BOOLEAN : FnReturn(p, failed)
    \/ \E p \in Procs : CloseDB(p)

SpecLock == InitLock /\ [][NextLock]_vars

(***************************************************************************)
(* SpecAdvisory: the advisory-lock backend alone, with the steps DoInLock  *)
(* is bound to take.  The server grants a free key to a waiting statement, *)
(* a callback returns, the deferred release statement is sent, and a       *)
(* process that panicked ends.  Whether and when a process that returned   *)
(* closes its pool, ending its sessions, is up to the caller: it can       *)
(* happen, it does not have to.                                            *)
(***************************************************************************)
InitAdvisory ==
    /\ InitLock
    /\ driver = "postgres"

NextAdvisory ==
    \/ \E p \in Procs, c \in Conns : PgDoInLock(p, c)
    \/ \E p \in Procs : PgLockGranted(p)
    \/ \E p \in Procs : PgLockError(p)
    \/ \E p \in Procs, c \in Conns, failed \in BOOLEAN : PgUnlock(p, c, failed)
    \/ \E p \in Procs : FnStatement(p)
    \/ \E p \in Procs, failed \in BOOLEAN : FnReturn(p, failed)
    \/ \E p \in Procs : CloseDB(p)

AdvisoryFairness ==
    \A p \in Procs :
        /\ WF_vars(PgLockGranted(p))
        /\ WF_vars(\E failed \in BOOLEAN : FnReturn(p, failed))
        /\ WF_vars(\E c \in Conns, failed \in BOOLEAN : PgUnlock(p, c, failed))
        /\ WF_vars(pc[p] = "panicked" /\ CloseDB(p))

SpecAdvisory == InitAdvisory /\ [][NextAdvisory]_vars /\ AdvisoryFairness

(***************************************************************************)
(* The ledger (table schema_history) and the local Up migrations.          *)
(* A description is a sequence of characters; Quote is the character '.    *)
(***************************************************************************)
Quote == "'"
Descriptions == {<<"a">>, <<"a", Quote>>, <<Quote, Quote>>}
Checksums == {"s1", "s2"}

\* a ledger row of version v
LedgerRow(v, d, c, ok) ==
    [version |-> v, description |-> d, md5_checksum |-> c, success |-> ok,
     repaired_at |-> 0]

\* a local migration (migrations.Migration of type Up)
UpMigration(v, d, c) == [version |-> v, description |-> d, checksum |-> c]

VersionsOf(rows) == {r.version : r \in rows}

\* version is the primary key of the ledger and names one local file
KeyedByVersion(rows) ==
    \A r1, r2 \in rows : r1.version = r2.version => r1 = r2

Max(S) == CHOOSE x \in S : \A y \in S : y <= x
Min(S) == CHOOSE x \in S : \A y \in S : x <= y

\* ORDER BY version ASC, and sortMigrations for the Up direction
RECURSIVE Ascending(_)
Ascending(S) ==
    IF S = {} THEN <<>>
    ELSE LET m == Min(S) IN <<m>> \o Ascending(S \ {m})

RowAt(rows, v) == CHOOSE r \in rows : r.version = v

\* the local Up migrations as the loader returns them, ascending by version
LocalUp(files) == [i \in 1 .. Cardinality(files) |->
                      RowAt(files, Ascending(VersionsOf(files))[i])]

(***************************************************************************)
(* ValidateMigrations.  CockroachDB writes each local migration into the   *)
(* text of the drift query as (%d, '%s', '%s'); PostgreSQL passes the      *)
(* three values as parameters.  SqlLiteral is what the server reads back   *)
(* from the text '<d>': a doubled quote stands for one quote, a quote that *)
(* is not doubled unbalances the quoting and the statement does not parse. *)
(***************************************************************************)
SqlError == <<"syntax error">>

RECURSIVE SqlLiteral(_)
SqlLiteral(d) ==
    IF d = <<>> THEN <<>>
    ELSE IF Head(d) # Quote
         THEN LET rest == SqlLiteral(Tail(d))
              IN IF rest = SqlError THEN SqlError ELSE <<Head(d)>> \o rest
         ELSE IF Len(d) >= 2 /\ d[2] = Quote
              THEN LET rest == SqlLiteral(Tail(Tail(d)))
                   IN IF rest = SqlError THEN SqlError ELSE <<Quote>> \o rest
              ELSE SqlError

\* the (version, description, md5_checksum) tuple the server compares with
MigrationTuple(drv, m) ==
    IF drv = "cockroachdb"
    THEN <<m.version, SqlLiteral(m.description), m.checksum>>
    ELSE <<m.version, m.description, m.checksum>>

MissingError(v) == [kind |-> "missing", version |-> v]
MismatchError(r) ==
    [kind |-> "mismatch", version |-> r.version,
     description |-> r.description, md5_checksum |-> r.md5_checksum]
QueryError == [kind |-> "query"]

\* the version the gap loop expects after reading actualVersion (uint16)
NextExpected_Step(expectedVersion, actualVersion) == (expectedVersion + 1) % 65536
NextExpected(expectedVersion, actualVersion) == (actualVersion + 1) % 65536

\* the loop over `SELECT version ... ORDER BY version ASC`
RECURSIVE GapErrors(_, _)
GapErrors(versions, expectedVersion) ==
    IF versions = <<>> THEN <<>>
    ELSE LET actualVersion == Head(versions) IN
         (IF expectedVersion # actualVersion
          THEN <<MissingError(expectedVersion)>> ELSE <<>>)
         \o GapErrors(Tail(versions),
                      NextExpected(expectedVersion, actualVersion))

\* rows of `WHERE success = true AND (version, description, md5_checksum)
\* NOT IN (...)`; the query names no order, the rows are taken ascending
DriftRows(rows, tuples) ==
    {r \in rows : /\ r.success
                  /\ <<r.version, r.description, r.md5_checksum>> \notin tuples}

DriftErrors(rows, tuples) ==
    LET bad == DriftRows(rows, tuples)
        vs == Ascending(VersionsOf(bad))
    IN [i \in 1 .. Len(vs) |-> MismatchError(RowAt(bad, vs[i]))]

ValidateMigrations(drv, tableExists, rows, migrations) ==
    IF Len(migrations) < 1 THEN <<>>
    ELSE IF ~tableExists THEN <<>>
    ELSE LET tuples == {MigrationTuple(drv, migrations[i]) :
                            i \in 1 .. Len(migrations)}
             gaps == GapErrors(Ascending(VersionsOf(rows)), 1)
         IN IF \E t \in tuples : t[2] = SqlError
            THEN <<QueryError>>
            ELSE gaps \o DriftErrors(rows, tuples)

(***************************************************************************)
(* SpecValidate: ValidateMigrations applied to the ledgers and local sets  *)
(* the program can meet.  A ledger holds any set of versions (Up runs      *)
(* without validation over local sets with holes leave such ledgers) and   *)
(* rows whose description or checksum differ from the local file (the file *)
(* was edited after it ran).                                               *)
(***************************************************************************)
GapLedgers ==
    {{LedgerRow(v, <<"a">>, "s1", ok[v]) : v \in V} :
        V \in SUBSET (1 .. GapMaxVersion) \ {{}},
        ok \in {[v \in 1 .. GapMaxVersion |-> TRUE],
                [v \in 1 .. GapMaxVersion |-> v < 5]}}

DriftLedgers ==
    {rows \in SUBSET {LedgerRow(v, d, c, ok) : v \in 1 .. DriftMaxVersion,
                          d \in Descriptions, c \in Checksums, ok \in BOOLEAN} :
        KeyedByVersion(rows)}

LocalSets ==
    {files \in SUBSET {UpMigration(v, d, "s1") : v \in 1 .. DriftMaxVersion,
                           d \in Descriptions} :
        KeyedByVersion(files)}

\* the local sets the gap ledgers are validated against
GapLocalSets == {{}, {UpMigration(1, <<"a">>, "s1")}}

ValidateInputs ==
    (GapLedgers \X GapLocalSets) \cup (DriftLedgers \X LocalSets)

InitValidate ==
    /\ driver \in Drivers
    /\ LockIdle
    /\ historyTable \in BOOLEAN
    /\ \E in \in (IF historyTable THEN ValidateInputs ELSE {{}} \X LocalSets) :
           /\ ledger = in[1]
           /\ upFiles = in[2]
    /\ verrs = NotValidated
    /\ NoMigrator
    /\ NoRepair
    /\ RepoIdle

Validate ==
    /\ ~verrs.called
    /\ verrs' = [called |-> TRUE,
                 errs |-> ValidateMigrations(driver, historyTable, ledger,
                                             LocalUp(upFiles))]
    /\ UNCHANGED <<driver, lockVars, dbVars, upFiles, migVars, repVars, txVars>>

NextValidate == Validate

SpecValidate == InitValidate /\ [][NextValidate]_vars

(***************************************************************************)
(* The loader (filesystem.LoadObjectsFromFiles): Up migrations are always  *)
(* loaded, Down migrations only for a Down run; a Down run loads only the  *)
(* RepeatableDown hooks, an Up run the hooks whose Use flag is set.  Up is *)
(* sorted ascending, Down descending, hooks by order.                      *)
(***************************************************************************)
Hook(t, o, v) == [type |-> t, order |-> o, version |-> v]

isToAddMigration(type, cfg) == type = "up" \/ (type = "down" /\ cfg.Down)

isToAddHook(hook, cfg) ==
    IF cfg.Down
    THEN hook.type = "repeatable_down" /\ cfg.UseRepeatable
    ELSE CASE hook.type = "before" -> cfg.UseBefore
           [] hook.type = "before_each" -> cfg.UseBeforeEach
           [] hook.type = "before_version" -> cfg.UseBeforeVersion
           [] hook.type = "after" -> cfg.UseAfter
           [] hook.type = "after_each" -> cfg.UseAfterEach
           [] hook.type = "after_version" -> cfg.UseAfterVersion
           [] hook.type = "repeatable" -> cfg.UseRepeatable
           [] OTHER -> FALSE

\* sortMigrations for the Down direction
RECURSIVE Descending(_)
Descending(S) ==
    IF S = {} THEN <<>>
    ELSE LET m == Max(S) IN <<m>> \o Descending(S \ {m})

LoadUp(cfg, files) ==
    IF isToAddMigration("up", cfg) THEN LocalUp(files) ELSE <<>>

LoadDown(cfg, downs) ==
    IF isToAddMigration("down", cfg) THEN Descending(downs) ELSE <<>>

\* hooksMap[type]: the loaded hooks of one type, by ascending order
LoadHooks(cfg, hooks, type) ==
    LET mine == {h \in hooks : h.type = type /\ isToAddHook(h, cfg)}
        orders == Ascending({h.order : h \in mine})
    IN [i \in 1 .. Len(orders) |-> CHOOSE h \in mine : h.order = orders[i]]

(***************************************************************************)
(* Repository operations on the state of one run: the ledger rows, the     *)
(* objects, the calls made so far and the errors collected.  `bad` is the  *)
(* set of scripts that fail when run; inside a transaction every statement *)
(* after a failed one fails too (the transaction is aborted).              *)
(***************************************************************************)
Script(op, type, order, version) ==
    [op |-> op, type |-> type, order |-> order, version |-> version]
HookScript(h) == Script("hook", h.type, h.order, h.version)
UpScript(v) == Script("migrate", "up", 0, v)
\* the ledger upsert that follows the script of version v
LedgerScript(v) == Script("ledger", "up", 0, v)
DownScript(v) == Script("rollback", "down", 0, v)

\* the error a failed script returns, and the error of a failed ledger write
ScriptError(s) ==
    [kind |-> "script", op |-> s.op, type |-> s.type, order |-> s.order,
     version |-> s.version]
LedgerError(v) == [kind |-> "ledger", version |-> v]

\* what each script creates or drops
HookObject(h) == Script("object", h.type, h.order, h.version)
MigrationObject(v) == Script("object", "up", 0, v)

\* one call made by a run: the script, and whether it succeeded; a rollback
\* of a version without ledger row runs no script (op "absent"), nor does
\* one whose existence query fails (op "exists")
Called(s, ok) ==
    [op |-> s.op, type |-> s.type, order |-> s.order, version |-> s.version,
     ok |-> ok]

StartRun(rows, objs) ==
    [rows |-> rows, objects |-> objs, log |-> <<>>, errs |-> <<>>,
     writes |-> 0, aborted |-> FALSE]

StmtFails(rs, inTx, scriptFails) == scriptFails \/ (inTx /\ rs.aborted)

ExecuteHook(rs, h, bad, inTx) ==
    LET failed == StmtFails(rs, inTx, HookScript(h) \in bad)
    IN [rs EXCEPT
          !.log = Append(@, Called(HookScript(h), ~failed)),
          !.objects = IF failed THEN @ ELSE @ \cup {HookObject(h)},
          !.errs = IF failed THEN Append(@, ScriptError(HookScript(h))) ELSE @,
          !.aborted = @ \/ (inTx /\ failed)]

\* INSERT ... ON CONFLICT (version) DO UPDATE SET description, md5_checksum,
\* success, executed_at
Upsert_Success(rows, m, ok) ==
    (rows \ {r \in rows : r.version = m.version}) \cup
       {[version |-> m.version, description |-> m.description,
         md5_checksum |-> m.checksum, success |-> TRUE, repaired_at |-> 0]}
Upsert(rows, m, ok) ==
    LET old == {r \in rows : r.version = m.version}
        repaired == IF old = {} THEN 0 ELSE (CHOOSE r \in old : TRUE).repaired_at
    IN (rows \ old) \cup
       {[version |-> m.version, description |-> m.description,
         md5_checksum |-> m.checksum, success |-> ok,
         repaired_at |-> repaired]}

\* the database rejects a value outside the range of the version column
FitsColumn(version) == version <= MaxSmallint

ExecuteMigration_SkipFailed(rs, m, bad, inTx) ==
    IF UpScript(m.version) \in bad
    THEN [rs EXCEPT !.log = Append(@, Called(UpScript(m.version), FALSE)),
                    !.errs = Append(@, ScriptError(UpScript(m.version))),
                    !.aborted = @ \/ inTx]
    ELSE [rs EXCEPT !.log = Append(@, Called(UpScript(m.version), TRUE)),
                    !.objects = @ \cup {MigrationObject(m.version)},
                    !.rows = Upsert(@, m, TRUE),
                    !.writes = @ + 1]
ExecuteMigration(rs, m, bad, inTx) ==
    LET scriptFailed == StmtFails(rs, inTx, UpScript(m.version) \in bad)
        writeFailed == \/ inTx /\ (rs.aborted \/ scriptFailed)
                       \/ LedgerScript(m.version) \in bad
                       \/ ~FitsColumn(m.version)
        aborted == rs.aborted \/ (inTx /\ (scriptFailed \/ writeFailed))
        scriptErr == IF scriptFailed
                     THEN <<ScriptError(UpScript(m.version))>> ELSE <<>>
        writeErr == IF writeFailed THEN <<LedgerError(m.version)>> ELSE <<>>
    IN [rs EXCEPT
          !.log = Append(@, Called(UpScript(m.version), ~scriptFailed)),
          !.objects = IF scriptFailed THEN @
                      ELSE @ \cup {MigrationObject(m.version)},
          !.rows = IF writeFailed THEN @ ELSE Upsert(@, m, ~scriptFailed),
          !.writes = IF writeFailed THEN @ ELSE @ + 1,
          !.errs = @ \o scriptErr \o writeErr,
          !.aborted = aborted]

RollbackMigration_DeleteAnyway(rs, v, bad, inTx) ==
    [rs EXCEPT !.log = Append(@, Called(DownScript(v), DownScript(v) \notin bad)),
               !.errs = IF DownScript(v) \in bad
                        THEN Append(@, ScriptError(DownScript(v))) ELSE @,
               !.rows = {r \in @ : r.version # v},
               !.writes = @ + 1]
RollbackMigration(rs, v, bad, inTx) ==
    IF inTx /\ rs.aborted
    THEN [rs EXCEPT !.log = Append(@, Called(Script("exists", "down", 0, v),
                                             FALSE)),
                    !.errs = Append(@, ScriptError(Script("exists", "down", 0, v)))]
    ELSE IF v \notin VersionsOf(rs.rows)
    THEN [rs EXCEPT !.log = Append(@, Called(Script("absent", "down", 0, v),
                                             TRUE))]
    ELSE IF DownScript(v) \in bad
    THEN [rs EXCEPT !.log = Append(@, Called(DownScript(v), FALSE)),
                    !.errs = Append(@, ScriptError(DownScript(v))),
                    !.aborted = inTx]
    ELSE [rs EXCEPT !.log = Append(@, Called(DownScript(v), TRUE)),
                    !.objects = @ \ {MigrationObject(v)},
                    !.rows = {r \in @ : r.version # v},
                    !.writes = @ + 1]

\* MAX(version) over success = true, 0 without such a row or without table
GetLatestMigration_All(tableExists, rows) ==
    IF ~tableExists \/ rows = {} THEN 0 ELSE Max(VersionsOf(rows))
GetLatestMigration(tableExists, rows) ==
    LET done == {r.version : r \in {x \in rows : x.success}}
    IN IF ~tableExists \/ done = {} THEN 0 ELSE Max(done)

\* the sequences that list every element of S once
Orders(S) ==
    {o \in [1 .. Cardinality(S) -> S] : {o[i] : i \in DOMAIN o} = S}

\* the results GetFailingMigrations can return: the rows with
\* success = false, in the order the database returns them (the query has
\* no ORDER BY); nothing without table
GetFailingMigrations(tableExists, rows) ==
    IF ~tableExists THEN {<<>>}
    ELSE Orders({r.version : r \in {x \in rows : ~x.success}})

\* migrations.ValidateMigrations: the local versions are 1, 2, 3, ...
RECURSIVE LocalValidate(_, _)
LocalValidate(migrations, expectedVersion) ==
    IF migrations = <<>> THEN <<>>
    ELSE LET version == Head(migrations).version IN
         (IF version # expectedVersion
          THEN <<[kind |-> "local", expected |-> expectedVersion,
                  version |-> version]>>
          ELSE <<>>)
         \o LocalValidate(Tail(migrations), (version + 1) % 65536)

(***************************************************************************)
(* migrateUp and migrateDown: the calls they make, in order.  A step is a  *)
(* hook to execute, a migration to execute or a version to roll back.      *)
(***************************************************************************)
HookSteps(hooks) == [i \in 1 .. Len(hooks) |-> HookScript(hooks[i])]

\* executeVersionedHooks: the hooks whose version is the migration's
VersionedHookSteps(version, hooks) ==
    HookSteps(SelectSeq(hooks, LAMBDA h : h.version = version))

When(flag, steps) == IF flag THEN steps ELSE <<>>

\* the body of the loop of migrateUp for one migration in range
UpSteps_HooksFirst(cfg, hooksMap, m) ==
    When(cfg.UseBeforeVersion,
         VersionedHookSteps(m.version, hooksMap["before_version"]))
    \o When(cfg.UseBeforeEach, HookSteps(hooksMap["before_each"]))
    \o <<UpScript(m.version)>>
    \o When(cfg.UseAfterEach, HookSteps(hooksMap["after_each"]))
    \o When(cfg.UseAfterVersion,
            VersionedHookSteps(m.version, hooksMap["after_version"]))
UpSteps(cfg, hooksMap, m) ==
    When(cfg.UseRepeatable /\ m.version > 1, HookSteps(hooksMap["repeatable"]))
    \o When(cfg.UseBeforeEach, HookSteps(hooksMap["before_each"]))
    \o When(cfg.UseBeforeVersion,
            VersionedHookSteps(m.version, hooksMap["before_version"]))
    \o <<UpScript(m.version)>>
    \o When(cfg.UseAfterVersion,
            VersionedHookSteps(m.version, hooksMap["after_version"]))
    \o When(cfg.UseAfterEach, HookSteps(hooksMap["after_each"]))

RECURSIVE UpLoop(_, _, _, _, _)
UpLoop(cfg, hooksMap, migrations, from, to) ==
    IF migrations = <<>> THEN <<>>
    ELSE LET m == Head(migrations) IN
         (IF m.version < from \/ m.version > to THEN <<>>
          ELSE UpSteps(cfg, hooksMap, m))
         \o UpLoop(cfg, hooksMap, Tail(migrations), from, to)

migrateUp(cfg, hooksMap, migrations, from, to) ==
    When(cfg.UseBefore, HookSteps(hooksMap["before"]))
    \o UpLoop(cfg, hooksMap, migrations, from, to)
    \o When(cfg.UseAfter, HookSteps(hooksMap["after"]))

RECURSIVE migrateDown_FromTop(_, _, _, _, _)
migrateDown_FromTop(cfg, hooksMap, migrations, from, to) ==
    IF migrations = <<>> THEN <<>>
    ELSE LET v == Head(migrations) IN
         (IF to >= v THEN <<>>
          ELSE <<DownScript(v)>>
               \o When(cfg.UseRepeatable /\ v > (to + 1) % 65536,
                       HookSteps(hooksMap["repeatable_down"])))
         \o migrateDown_FromTop(cfg, hooksMap, Tail(migrations), from, to)

RECURSIVE migrateDown(_, _, _, _, _)
migrateDown(cfg, hooksMap, migrations, from, to) ==
    IF migrations = <<>> THEN <<>>
    ELSE LET v == Head(migrations) IN
         (IF from < v \/ to >= v THEN <<>>
          ELSE <<DownScript(v)>>
               \o When(cfg.UseRepeatable /\ v > (to + 1) % 65536,
                       HookSteps(hooksMap["repeatable_down"])))
         \o migrateDown(cfg, hooksMap, Tail(migrations), from, to)

RunStep(rs, step, ups, bad, inTx) ==
    CASE step.op = "hook" ->
           ExecuteHook(rs, Hook(step.type, step.order, step.version), bad, inTx)
      [] step.op = "migrate" ->
           ExecuteMigration(rs, RowAt(ups, step.version), bad, inTx)
      [] step.op = "rollback" ->
           RollbackMigration(rs, step.version, bad, inTx)

\* a step that returns an error ends the run unless Force is set
StopsRun_Never(force, failed) == FALSE
StopsRun(force, failed) == failed /\ ~force

RECURSIVE RunSteps(_, _, _, _, _, _)
RunSteps(rs, steps, ups, force, bad, inTx) ==
    IF steps = <<>> THEN rs
    ELSE LET after == RunStep(rs, Head(steps), ups, bad, inTx)
         IN IF StopsRun(force, Len(after.errs) > Len(rs.errs))
            THEN after
            ELSE RunSteps(after, Tail(steps), ups, force, bad, inTx)

(***************************************************************************)
(* DoInTransaction: the callback's statements run in a transaction that is *)
(* rolled back when the callback returns an error.  The value returned by  *)
(* tx.Commit() is dropped: when the commit fails nothing is persisted and  *)
(* DoInTransaction still returns nil.                                      *)
(***************************************************************************)
\* DoInTransaction once fn has returned `result` ("nil", "error") or
\* panicked ("panic"): the calls made on the transaction handle, what is
\* persisted and what is returned.  The deferred function calls
\* tx.Rollback() on every path, after tx.Commit() too.
TxOutcome_CommitAlways(rows, objs, rs, result, commitFails) ==
    [ret |-> result, ops |-> <<"Commit", "Rollback">>,
     rows |-> rs.rows, objects |-> rs.objects]
TxOutcome(rows, objs, rs, result, commitFails) ==
    IF result # "nil"
    THEN [ret |-> result, ops |-> <<"Rollback">>,
          rows |-> rows, objects |-> objs]
    ELSE IF commitFails \/ rs.aborted
    THEN [ret |-> "nil", ops |-> <<"Commit", "Rollback">>,
          rows |-> rows, objects |-> objs]
    ELSE [ret |-> "nil", ops |-> <<"Commit", "Rollback">>,
          rows |-> rs.rows, objects |-> rs.objects]

\* DoInTransaction around the migrate closure, which returns the joined
\* errors of its steps
DoInTransaction_Keep(rows, objs, rs, commitFails) ==
    [ret |-> IF Len(rs.errs) > 0 THEN "error" ELSE "nil",
     rows |-> rs.rows, objects |-> rs.objects]
DoInTransaction(rows, objs, rs, commitFails) ==
    LET out == TxOutcome(rows, objs, rs,
                         IF Len(rs.errs) > 0 THEN "error" ELSE "nil",
                         commitFails)
    IN [ret |-> out.ret, rows |-> out.rows, objects |-> out.objects]

\* the migrate closure called directly
NoTransaction(rs) ==
    [ret |-> IF Len(rs.errs) > 0 THEN "error" ELSE "nil",
     rows |-> rs.rows, objects |-> rs.objects]

(***************************************************************************)
(* Migrator.Migrate, the callback it hands to DoInLock.                    *)
(***************************************************************************)
HookTypes ==
    {"before", "before_each", "before_version", "after", "after_each",
     "after_version", "repeatable", "repeatable_down"}

Ptr(v) == <<v>>
Deref(p) == p[1]

\* the destination after the two fix-ups of Migrate
FixDestination(cfg, migrationsUp) ==
    IF cfg.Destination # NoDestination THEN cfg.Destination
    ELSE IF cfg.Down THEN Ptr(0)
    ELSE Ptr(migrationsUp[Len(migrationsUp)].version)

FailingErrors(versions) ==
    [i \in 1 .. Len(versions) |-> [kind |-> "failing", version |-> versions[i]]]

\* the three validations of Migrate, each returning on its own errors
ValidationErrors(drv, rows, migrationsUp, failingMigrations) ==
    LET failing == FailingErrors(failingMigrations)
        localErrs == LocalValidate(migrationsUp, 1)
    IN IF Len(failing) > 0 THEN failing
       ELSE IF Len(localErrs) > 0 THEN localErrs
       ELSE ValidateMigrations(drv, TRUE, rows, migrationsUp)

\* a return of Migrate that executed nothing
Returns(result, errs, cfg, rows, objs, latest, differed) ==
    [ret |-> result, errs |-> errs, cfg |-> cfg, rows |-> rows, objects |-> objs,
     latest |-> latest, differed |-> differed, log |-> <<>>, writes |-> 0]

\* an Up destination below latest or a Down destination above it: warn
\* and return nil
WrongDirection_Never(cfg, destination, latestMigration) == FALSE
WrongDirection(cfg, destination, latestMigration) ==
    \/ ~cfg.Down /\ destination < latestMigration
    \/ cfg.Down /\ destination > latestMigration

MigrateOutcome(drv, cfg, ups, downs, hooks, rows, objs, bad, commitFails, failingMigrations) ==
    LET migrationsUp == LoadUp(cfg, ups)
        migrationsDown == LoadDown(cfg, downs)
        hooksMap == [t \in HookTypes |-> LoadHooks(cfg, hooks, t)]
        latestMigration == GetLatestMigration(TRUE, rows)
    IN IF \/ ~cfg.Down /\ Len(migrationsUp) < 1
          \/ cfg.Down /\ Len(migrationsDown) < 1
       THEN Returns("nil", <<>>, cfg, rows, objs, latestMigration, FALSE)
       ELSE
       LET fixed == [cfg EXCEPT !.Destination = FixDestination(cfg, migrationsUp)]
           destination == Deref(fixed.Destination)
           verr == IF cfg.Validate
                   THEN ValidationErrors(drv, rows, migrationsUp,
                                         failingMigrations)
                   ELSE <<>>
       IN IF Len(verr) > 0
          THEN Returns("error", verr, fixed, rows, objs, latestMigration, FALSE)
          ELSE IF latestMigration = destination
          THEN Returns("nil", <<>>, fixed, rows, objs, latestMigration, FALSE)
          ELSE IF WrongDirection(cfg, destination, latestMigration)
          THEN Returns("nil", <<>>, fixed, rows, objs, latestMigration, TRUE)
          ELSE
          LET steps == IF cfg.Down
                       THEN migrateDown(fixed, hooksMap, migrationsDown,
                                        latestMigration, destination)
                       ELSE migrateUp(fixed, hooksMap, migrationsUp,
                                      (latestMigration + 1) % 65536, destination)
              rs == RunSteps(StartRun(rows, objs), steps, ups, cfg.Force, bad,
                             cfg.InTransaction)
              end == IF cfg.InTransaction
                     THEN DoInTransaction(rows, objs, rs, commitFails)
                     ELSE NoTransaction(rs)
          IN [ret |-> end.ret, errs |-> rs.errs, cfg |-> fixed,
              rows |-> end.rows, objects |-> end.objects,
              latest |-> latestMigration, differed |-> TRUE,
              log |-> rs.log, writes |-> rs.writes]

(***************************************************************************)
(* SpecMigrate: one Migrator used for up to MaxRuns calls of Migrate() on  *)
(* a database that starts without ledger table, with its configuration     *)
(* edited by the caller between the calls.                                 *)
(***************************************************************************)
Versions == 1 .. MaxVersion

UpSets == {{UpMigration(v, <<"a">>, "s1") : v \in V} : V \in SUBSET Versions}

DownSets == {{}, 1 .. MaxVersion, 2 .. MaxVersion}

AuditHook == Hook("before", 1, 0)

AllHooks ==
    {AuditHook, Hook("before", 2, 0), Hook("before_each", 1, 0),
     Hook("before_version", 1, 2), Hook("after_version", 1, 2),
     Hook("after_each", 1, 0), Hook("after", 1, 0), Hook("repeatable", 1, 0),
     Hook("repeatable_down", 1, 0)}

HookSets == {{}, AllHooks}

\* the hooks whose script may be faulty
BrokenHooks == {AuditHook, Hook("after_each", 1, 0), Hook("repeatable_down", 1, 0)}

Destinations == {NoDestination} \cup {Ptr(d) : d \in 0 .. MaxVersion}

UseHooks(cfg, use) ==
    [cfg EXCEPT !.UseRepeatable = use, !.UseBefore = use, !.UseAfter = use,
                !.UseBeforeEach = use, !.UseAfterEach = use,
                !.UseBeforeVersion = use, !.UseAfterVersion = use]

Configs ==
    {UseHooks([DefaultConfig EXCEPT !.Validate = validate, !.Down = down,
                                    !.InTransaction = inTx, !.Force = force,
                                    !.Destination = dest], use) :
        validate \in BOOLEAN, down \in BOOLEAN, inTx \in BOOLEAN,
        force \in BOOLEAN, dest \in Destinations, use \in BOOLEAN}

\* the scripts a run in the configured direction can execute and that may
\* be faulty; at most one of them fails in a run
Scripts ==
    IF config.Down
    THEN {DownScript(v) : v \in downFiles}
         \cup {HookScript(h) : h \in {x \in hookFiles \cap BrokenHooks :
                                         x.type = "repeatable_down"}}
    ELSE {UpScript(m.version) : m \in upFiles}
         \cup {HookScript(h) : h \in {x \in hookFiles \cap BrokenHooks :
                                         x.type # "repeatable_down"}}

BadScripts == {{}} \cup {{s} : s \in Scripts}

\* tx.Commit() can fail only where a transaction is used
CommitOutcomes == IF config.InTransaction THEN BOOLEAN ELSE {FALSE}

\* the destinations a caller sets when reversing the direction
ReverseDestinations == {NoDestination, Ptr(0)}

InitMigrate ==
    /\ driver = "postgres"
    /\ LockIdle
    /\ historyTable = FALSE
    /\ ledger = {}
    /\ verrs = NotValidated
    /\ objects = {}
    /\ upFiles \in UpSets
    /\ downFiles \in DownSets
    /\ hookFiles \in HookSets
    /\ config \in {c \in Configs : hookFiles = {} => c.UseBefore}
    /\ last = NoRun
    /\ prev = NoRun
    /\ NoRepair
    /\ RepoIdle

\* AssertSchemaHistoryTable, called by Migrate on the plain connection
\* before DoInTransaction: CREATE TABLE IF NOT EXISTS, committed at once
AssertSchemaHistoryTable_Skip(tableExists) == tableExists
AssertSchemaHistoryTable(tableExists) == TRUE

\* one call of Migrate() in which the scripts of `bad` fail
MigrateCall(bad, commitFails) ==
    /\ last.n < MaxRuns
    /\ \E failingMigrations \in GetFailingMigrations(TRUE, ledger) :
       LET out == MigrateOutcome(driver, config, upFiles, downFiles, hookFiles,
                                 ledger, objects, bad, commitFails,
                                 failingMigrations)
       IN /\ historyTable' = AssertSchemaHistoryTable(historyTable)
          /\ ledger' = out.rows
          /\ objects' = out.objects
          /\ config' = out.cfg
          /\ last' = [n |-> last.n + 1, ret |-> out.ret, cfg |-> config,
                      cfgOut |-> out.cfg, latest |-> out.latest,
                      differed |-> out.differed, log |-> out.log,
                      writes |-> out.writes, errs |-> out.errs,
                      before |-> ledger, tableBefore |-> historyTable]
          /\ prev' = last
    /\ UNCHANGED <<driver, lockVars, upFiles, verrs, downFiles, hookFiles,
                   repVars, txVars>>

\* the caller reverses the direction of the Migrator between two calls
Reverse(dest) ==
    /\ last.n \in 1 .. MaxRuns - 1
    /\ config = last.cfgOut
    /\ config' = [config EXCEPT !.Down = ~config.Down, !.Destination = dest]
    /\ UNCHANGED <<driver, lockVars, dbVars, upFiles, verrs, objects, repVars,
                   txVars,
                   downFiles, hookFiles, last, prev>>

Migrate ==
    \E bad \in BadScripts, commitFails \in CommitOutcomes :
        MigrateCall(bad, commitFails)

NextMigrate ==
    \/ Migrate
    \/ \E dest \in ReverseDestinations : Reverse(dest)

SpecMigrate == InitMigrate /\ [][NextMigrate]_vars

(***************************************************************************)
(* SpecGate: Migrate() with validation enabled on a database whose ledger  *)
(* was written by earlier runs, against local files that may have been     *)
(* renamed, edited or removed since.                                       *)
(***************************************************************************)
\* ledger rows: any description a file name can hold, either checksum,
\* applied or failed
GateLedgers ==
    UNION {{{LedgerRow(v, f[v][1], f[v][2], f[v][3]) : v \in V} :
               f \in [V -> {<<"a">>, <<Quote>>} \X Checksums \X BOOLEAN]} :
           V \in SUBSET (1 .. DriftMaxVersion)}

GateLocalSets ==
    {files \in SUBSET {UpMigration(v, d, "s1") : v \in 1 .. DriftMaxVersion,
                           d \in {<<"a">>, <<Quote, Quote>>}} :
        KeyedByVersion(files)}

GateConfigs ==
    {c \in Configs : /\ c.Validate /\ c.UseBefore
                     /\ c.Destination \in {NoDestination, Ptr(1)}}

InitGate ==
    /\ driver \in Drivers
    /\ LockIdle
    /\ historyTable = TRUE
    /\ ledger \in GateLedgers
    /\ verrs = NotValidated
    /\ objects = {}
    /\ upFiles \in GateLocalSets
    /\ downFiles \in {{}, 1 .. DriftMaxVersion}
    /\ hookFiles = {AuditHook}
    /\ config \in GateConfigs
    /\ last = NoRun
    /\ prev = NoRun
    /\ NoRepair
    /\ RepoIdle

SpecGate == InitGate /\ [][NextMigrate]_vars

(***************************************************************************)
(* Repair: one INSERT ... ON CONFLICT (version) DO UPDATE per local        *)
(* migration.  PostgreSQL's statement sets success = true on a conflict,   *)
(* CockroachDB's SET list leaves the success column of an existing row as  *)
(* it is.  A statement that fails changes nothing and its error is         *)
(* collected.                                                              *)
(***************************************************************************)
\* repaired_at of an existing row after the update
RepairedAt_Always(old, m, now) == now
RepairedAt(old, m, now) ==
    IF m.description # old.description \/ m.checksum # old.md5_checksum
    THEN now
    ELSE old.repaired_at

\* success of an existing row after the update
RepairedSuccess_Keep(drv, old) == old.success
RepairedSuccess(drv, old) == IF drv = "postgres" THEN TRUE ELSE old.success

RepairRow(drv, rows, m, now) ==
    LET hit == {r \in rows : r.version = m.version}
    IN IF hit = {}
       THEN rows \cup {[version |-> m.version, description |-> m.description,
                        md5_checksum |-> m.checksum, success |-> TRUE,
                        repaired_at |-> now]}
       ELSE LET old == CHOOSE r \in hit : TRUE
            IN (rows \ hit) \cup
               {[version |-> m.version, description |-> m.description,
                 md5_checksum |-> m.checksum,
                 success |-> RepairedSuccess(drv, old),
                 repaired_at |-> RepairedAt(old, m, now)]}

RECURSIVE RepairRows(_, _, _, _, _)
RepairRows(drv, rows, migrations, now, bad) ==
    IF migrations = <<>> THEN rows
    ELSE LET m == Head(migrations)
             after == IF m.version \in bad THEN rows
                      ELSE RepairRow(drv, rows, m, now)
         IN RepairRows(drv, after, Tail(migrations), now, bad)

\* the ledger after Repair(migrations), and the versions whose statement
\* returned an error
Repair(drv, tableExists, rows, migrations, now, bad) ==
    IF ~tableExists
    THEN [rows |-> rows, errs |-> {}]
    ELSE [rows |-> RepairRows(drv, rows, migrations, now, bad),
          errs |-> {migrations[i].version : i \in 1 .. Len(migrations)}
                   \cap bad]

(***************************************************************************)
(* SpecRepair: Repair called up to MaxRepairs times with the local files   *)
(* against the ledgers earlier runs and edits of the files can leave.      *)
(***************************************************************************)
\* one row per version of V, each with any description, checksum, success
\* flag and an earlier or no repair stamp
RepairLedgers ==
    UNION {{{[version |-> v, description |-> f[v][1], md5_checksum |-> f[v][2],
              success |-> f[v][3], repaired_at |-> f[v][4]] : v \in V} :
               f \in [V -> Descriptions \X Checksums \X BOOLEAN \X {0, 1}]} :
           V \in SUBSET (1 .. DriftMaxVersion)}

InitRepair ==
    /\ driver \in Drivers
    /\ LockIdle
    /\ historyTable \in BOOLEAN
    /\ ledger \in (IF historyTable THEN RepairLedgers ELSE {{}})
    /\ upFiles \in LocalSets
    /\ verrs = NotValidated
    /\ NoMigrator
    /\ clock = 2
    /\ rep = [n |-> 0, errs |-> {}, prevErrs |-> {}, before |-> {}, at |-> 0]
    /\ RepoIdle

\* at most one statement of a Repair call fails
BadRepairs == {{}} \cup {{m.version} : m \in upFiles}

RepairCall(bad) ==
    /\ rep.n < MaxRepairs
    /\ LET out == Repair(driver, historyTable, ledger, LocalUp(upFiles),
                         clock, bad)
       IN /\ ledger' = out.rows
          /\ rep' = [n |-> rep.n + 1, errs |-> out.errs, prevErrs |-> rep.errs,
                     before |-> ledger, at |-> clock]
    /\ clock' = clock + 1
    /\ UNCHANGED <<driver, lockVars, historyTable, upFiles, verrs, migVars,
                   txVars>>

RepairAll == \E bad \in BadRepairs : RepairCall(bad)

NextRepair == RepairAll

SpecRepair == InitRepair /\ [][NextRepair]_vars

(***************************************************************************)
(* SpecTx: a repository used directly.  DoInTransaction swaps queriable to *)
(* the transaction, runs fn, whose statements go through queriable, and    *)
(* on return commits or rolls back and resets queriable in its deferred    *)
(* function.  ExecuteMigration, RollbackMigration and GetLatestMigration   *)
(* are called inside fn or outside any transaction.  The code of these     *)
(* operations is the same in both repositories.                            *)
(***************************************************************************)
RepoMigrations == {UpMigration(v, <<"a">>, "s1") : v \in 1 .. DriftMaxVersion}

\* ledgers left by earlier runs: applied and failed rows, of these files or
\* of earlier contents of them
RepoLedgers ==
    UNION {{{LedgerRow(v, <<"a">>, f[v][1], f[v][2]) : v \in V} :
               f \in [V -> Checksums \X BOOLEAN]} :
           V \in SUBSET (1 .. DriftMaxVersion)}

InitTx ==
    /\ driver \in Drivers
    /\ LockIdle
    /\ historyTable \in BOOLEAN
    /\ ledger \in (IF historyTable THEN RepoLedgers ELSE {{}})
    /\ upFiles = {}
    /\ verrs = NotValidated
    /\ NoMigrator
    /\ NoRepair
    /\ RepoIdle

\* the deferred function of DoInTransaction resets queriable on every path
QueriableAfter_OnSuccess(result) == IF result = "nil" THEN "db" ELSE "tx"
QueriableAfter(result) == "db"

\* what a statement sent through queriable works on: the open transaction's
\* view, the database, or a finished transaction (every statement fails)
Through ==
    IF queriable = "db" THEN StartRun(ledger, objects)
    ELSE IF txn.handle = "open"
    THEN [txn.work EXCEPT !.log = <<>>, !.errs = <<>>]
    ELSE [StartRun(ledger, objects) EXCEPT !.aborted = TRUE]

\* the effect of a repository operation that ended in run state rs
Issued(name, version, scriptFails, writeFails, before, rs, result) ==
    /\ call' = [n |-> call.n + 1, name |-> name, version |-> version,
                via |-> queriable, inFn |-> txn.pc = "fn",
                afterTx |-> txn.n, prev |-> <<call.name, call.version>>,
                scriptFails |-> scriptFails, writeFails |-> writeFails,
                errs |-> rs.errs, log |-> rs.log, before |-> before.rows,
                objectsBefore |-> before.objects, result |-> result,
                failing |-> <<>>]
    /\ IF queriable = "db"
       THEN /\ ledger' = rs.rows
            /\ objects' = rs.objects
            /\ UNCHANGED txn
       ELSE /\ txn' = [txn EXCEPT !.work = rs]
            /\ UNCHANGED <<ledger, objects>>
    /\ UNCHANGED <<driver, lockVars, historyTable, upFiles, verrs, config,
                   downFiles, hookFiles, last, prev, repVars, queriable>>

\* BeginTx succeeds: queriable is the transaction
TxBegin ==
    /\ txn.pc = "idle"
    /\ txn.n < MaxTxs
    /\ queriable' = "tx"
    /\ txn' = [pc |-> "fn", n |-> txn.n + 1, handle |-> "open", ops |-> <<>>,
               work |-> StartRun(ledger, objects),
               before |-> [rows |-> ledger, objects |-> objects],
               fnRet |-> "none", ret |-> "none", commitFailed |-> FALSE]
    /\ UNCHANGED <<driver, lockVars, dbVars, upFiles, verrs, migVars, repVars,
                   call>>

\* BeginTx fails: DoInTransaction returns the error before its defer
TxBeginError ==
    /\ txn.pc = "idle"
    /\ txn.n < MaxTxs
    /\ txn' = [pc |-> "idle", n |-> txn.n + 1, handle |-> "none", ops |-> <<>>,
               work |-> StartRun(ledger, objects),
               before |-> [rows |-> ledger, objects |-> objects],
               fnRet |-> "none", ret |-> "beginerr", commitFailed |-> FALSE]
    /\ UNCHANGED <<driver, lockVars, dbVars, upFiles, verrs, migVars, repVars,
                   queriable, call>>

\* fn returns nil or an error, or panics; Commit, the deferred Rollback and
\* the reset of queriable follow
TxFnEnds(result, commitFails) ==
    /\ txn.pc = "fn"
    /\ LET out == TxOutcome(txn.before.rows, txn.before.objects, txn.work,
                            result, commitFails)
       IN /\ ledger' = out.rows
          /\ objects' = out.objects
          /\ txn' = [txn EXCEPT !.pc = "idle", !.handle = "done",
                                !.ops = out.ops, !.fnRet = result,
                                !.ret = out.ret,
                                !.commitFailed = commitFails /\ result = "nil"]
    /\ queriable' = QueriableAfter(result)
    /\ UNCHANGED <<driver, lockVars, historyTable, upFiles, verrs, config,
                   downFiles, hookFiles, last, prev, repVars, call>>

RepoExecuteMigration(m, scriptFails, writeFails) ==
    /\ call.n < MaxOps
    /\ historyTable
    /\ LET bad == (IF scriptFails THEN {UpScript(m.version)} ELSE {})
                  \cup (IF writeFails THEN {LedgerScript(m.version)} ELSE {})
           rs == ExecuteMigration(Through, m, bad, queriable = "tx")
       IN Issued("execute", m.version, scriptFails, writeFails, Through, rs, 0)

RepoRollbackMigration(v, scriptFails) ==
    /\ call.n < MaxOps
    /\ historyTable
    /\ LET bad == IF scriptFails THEN {DownScript(v)} ELSE {}
           rs == RollbackMigration(Through, v, bad, queriable = "tx")
       IN Issued("rollback", v, scriptFails, FALSE, Through, rs, 0)

RepoGetLatestMigration ==
    /\ call.n < MaxOps
    /\ LET failed == queriable = "tx" /\ Through.aborted
           rs == IF failed
                 THEN [Through EXCEPT !.errs = <<QueryError>>]
                 ELSE Through
       IN Issued("latest", 0, FALSE, FALSE, Through, rs,
                 IF failed THEN 0
                 ELSE GetLatestMigration(historyTable, Through.rows))

\* GetFailingMigrations called on its own: it reads only, and its query
\* fails inside an aborted transaction
RepoGetFailingMigrations ==
    /\ call.n < MaxOps
    /\ LET failed == queriable = "tx" /\ Through.aborted
       IN \E rows \in (IF failed THEN {<<>>}
                       ELSE GetFailingMigrations(historyTable, Through.rows)) :
             call' = [n |-> call.n + 1, name |-> "failing", version |-> 0,
                      via |-> queriable, inFn |-> txn.pc = "fn",
                      afterTx |-> txn.n, prev |-> <<call.name, call.version>>,
                      scriptFails |-> FALSE, writeFails |-> FALSE,
                      errs |-> IF failed THEN <<QueryError>> ELSE <<>>,
                      log |-> <<>>, before |-> Through.rows,
                      objectsBefore |-> Through.objects, result |-> 0,
                      failing |-> rows]
    /\ UNCHANGED <<driver, lockVars, dbVars, upFiles, verrs, migVars, repVars,
                   queriable, txn>>

TxFnReturns ==
    \E result \in {"nil", "error", "panic"}, commitFails \in BOOLEAN :
        TxFnEnds(result, commitFails)

RepoExecute ==
    \E m \in RepoMigrations, scriptFails \in BOOLEAN, writeFails \in BOOLEAN :
        RepoExecuteMigration(m, scriptFails, writeFails)

RepoRollback ==
    \E v \in 1 .. DriftMaxVersion, scriptFails \in BOOLEAN :
        RepoRollbackMigration(v, scriptFails)

NextTx ==
    \/ TxBegin
    \/ TxBeginError
    \/ TxFnReturns
    \/ RepoExecute
    \/ RepoRollback
    \/ RepoGetLatestMigration
    \/ RepoGetFailingMigrations

SpecTx == InitTx /\ [][NextTx]_vars

(***************************************************************************)
(* SpecColumn: migrations of any version a Migration can carry recorded    *)
(* with ExecuteMigration on the plain connection and read back with        *)
(* GetLatestMigration.                                                     *)
(***************************************************************************)
\* versions at the ends of the ranges of uint16 and of SMALLINT
WideVersions == {1, MaxSmallint, MaxSmallint + 1, MaxUint16}

RecordVersion ==
    \E v \in WideVersions, scriptFails \in BOOLEAN :
        RepoExecuteMigration(UpMigration(v, <<"a">>, "s1"), scriptFails, FALSE)

NextColumn ==
    \/ RecordVersion
    \/ RepoGetLatestMigration

SpecColumn == InitTx /\ [][NextColumn]_vars

(***************************************************************************)
(* SpecRecover: a Migrator configured for validated Up runs without Force  *)
(* on a database without ledger rows, with or without ledger table, whose  *)
(* scripts can fail, and the Repair command run with the same local files  *)
(* between its runs.                                                       *)
(***************************************************************************)
RecoverConfigs ==
    {c \in Configs : /\ c.Validate /\ ~c.Force /\ ~c.Down
                     /\ c.UseBefore /\ c.Destination = NoDestination}

InitRecover ==
    /\ driver \in Drivers
    /\ LockIdle
    /\ historyTable \in BOOLEAN
    /\ ledger = {}
    /\ verrs = NotValidated
    /\ objects = {}
    /\ upFiles \in UpSets
    /\ downFiles \in {{}, 1 .. MaxVersion}
    /\ hookFiles = {}
    /\ config \in RecoverConfigs
    /\ last = NoRun
    /\ prev = NoRun
    /\ NoRepair
    /\ RepoIdle

NextRecover ==
    \/ Migrate
    \/ \E dest \in ReverseDestinations : Reverse(dest)
    \/ RepairAll

SpecRecover == InitRecover /\ [][NextRecover]_vars

(***************************************************************************)
(* SpecTable: the same Migrator and Repair command on a database that may  *)
(* lack the ledger table, together with the repository's read operations   *)
(* GetLatestMigration and GetFailingMigrations called on the connection.   *)
(***************************************************************************)
InitTable ==
    /\ InitRecover
    /\ downFiles = {}

NextTable ==
    \/ Migrate
    \/ RepairAll
    \/ RepoGetLatestMigration
    \/ RepoGetFailingMigrations

SpecTable == InitTable /\ [][NextTable]_vars

(***************************************************************************)
(* SpecContig: validated Up runs on a ledger that holds the versions 1..L, *)
(* in which the script of one migration or the ledger upsert that follows  *)
(* it (the second statement of ExecuteMigration) can fail.                 *)
(***************************************************************************)
\* the statements of a run that may fail; at most one of them fails
FaultyStatements ==
    {{}} \cup {{UpScript(m.version)} : m \in upFiles}
         \cup {{LedgerScript(m.version)} : m \in upFiles}

InitContig ==
    /\ driver \in Drivers
    /\ LockIdle
    /\ historyTable = TRUE
    /\ ledger \in {{LedgerRow(v, <<"a">>, "s1", TRUE) : v \in 1 .. k} :
                       k \in 0 .. MaxVersion}
    /\ verrs = NotValidated
    /\ objects = {MigrationObject(r.version) : r \in ledger}
    /\ upFiles \in UpSets
    /\ downFiles = {}
    /\ hookFiles = {}
    /\ config \in {c \in Configs : c.Validate /\ ~c.Down /\ c.UseBefore}
    /\ last = NoRun
    /\ prev = NoRun
    /\ NoRepair
    /\ RepoIdle

MigrateFaulty ==
    \E bad \in FaultyStatements, commitFails \in CommitOutcomes :
        MigrateCall(bad, commitFails)

NextContig == MigrateFaulty

SpecContig == InitContig /\ [][NextContig]_vars

(***************************************************************************)
(* Claims about DoInLock, checked under SpecLock.                          *)
(***************************************************************************)
\* processes whose DoInLock callback is in progress
InCallback == {p \in Procs : pc[p] = "fn"}

\* C1: marker-table backend: at most one process has its DoInLock callback
\* in progress at any time (the probe-then-create sequence never lets two
\* processes both conclude that they acquired the lock).
C1_MarkerMutualExclusion ==
    driver = "cockroachdb" => Cardinality(InCallback) <= 1

HeldFor(p) ==
    IF driver = "postgres"
    THEN advisory.holder[1] = p
    ELSE lockTable /\ \A q \in Procs \ {p} :
                          pc[q] \notin {"fn", "release", "panicked", "closed"}

\* C3: for both backends, once DoInLock has returned (the callback returned
\* nil or an error) the lock is no longer held: the marker table is absent,
\* the advisory key is free for other sessions.
C3_ReleasedOnReturn ==
    \A p \in Procs :
        (pc[p] = "idle" /\ ret[p] \in {"nil", "fnerr"}) => ~HeldFor(p)

C5_Bounded ==
    \A p \in Procs :
        /\ probes[p] <= LockAttempts
        /\ pc[p] = "probe" => probes[p] < LockAttempts
        /\ ret[p] = "timeout" =>
              (probes[p] = LockAttempts /\ fnRuns[p] = 0 /\ stmts[p] = 0)

C5_TimeoutStep ==
    \A p \in Procs :
        (ret[p] # "timeout" /\ ret'[p] = "timeout") =>
            /\ lockTable /\ lockTable'
            /\ pc[p] = "probe" /\ pc'[p] = "idle"
            /\ UNCHANGED <<advisory, fnRuns, relErr>>
            /\ \A q \in Procs \ {p} : pc'[q] = pc[q] /\ stmts'[q] = stmts[q]

\* C5: marker-table backend: lock() makes at most 12 probes; when the marker
\* table exists at each of them it returns a timeout error after exactly 12,
\* and DoInLock returns it without invoking the callback, without a statement
\* of the callback and without dropping the marker table of the holder.
C5_LockTimeout == []C5_Bounded /\ [][C5_TimeoutStep]_vars

C5_Witness == \E p \in Procs : ret[p] = "timeout" /\ lockTable


(***************************************************************************)
(* Claims about ValidateMigrations, checked under SpecValidate.            *)
(***************************************************************************)
Range(seq) == {seq[i] : i \in 1 .. Len(seq)}

\* the errors of one kind in a returned list, in the order returned
OfKind(errs, k) == SelectSeq(errs, LAMBDA e : e.kind = k)

\* ValidateMigrations ran against an existing ledger table with local files
Validated == verrs.called /\ historyTable /\ upFiles # {}

\* the first absent version of every hole below a recorded version
GapStarts(V) ==
    {w \in 1 .. Max(V \cup {1}) :
        /\ w \notin V
        /\ w = 1 \/ (w - 1) \in V
        /\ \E u \in V : u > w}

Drifted(rows, files) ==
    {r \in rows :
        /\ r.success
        /\ ~\E m \in files : /\ m.version = r.version
                            /\ m.description = r.description
                            /\ m.checksum = r.md5_checksum}

\* C10: with the table present and local files, ValidateMigrations reports
\* exactly one mismatch error per drifted success=true row and none for
\* other rows; with the table absent or no local file it returns no error.
C10_DriftCheck ==
    verrs.called =>
        IF ~historyTable \/ upFiles = {}
        THEN verrs.errs = <<>>
        ELSE LET mismatch == OfKind(verrs.errs, "mismatch")
                 drifted == Drifted(ledger, upFiles)
             IN /\ Range(mismatch) = {MismatchError(r) : r \in drifted}
                /\ Len(mismatch) = Cardinality(drifted)


(***************************************************************************)
(* Claims about Migrate(), checked under SpecMigrate.                      *)
(***************************************************************************)
\* the destination a call resolved, where it got that far
Resolved(run) == run.cfgOut.Destination # NoDestination

DestinationOf(run) == Deref(run.cfgOut.Destination)

SuccessRows(v) == {r \in ledger : r.version = v /\ r.success}

\* C6: after an Up call of Migrate() that returned nil and had found latest
\* different from the destination, GetLatestMigration() is the destination
\* and the ledger holds exactly one success=true row for each version from
\* 1 to the destination.
C6_UpReachesDestination ==
    (last.ret = "nil" /\ ~last.cfg.Down /\ last.differed) =>
        /\ GetLatestMigration(historyTable, ledger) = DestinationOf(last)
        /\ \A v \in 1 .. DestinationOf(last) : Cardinality(SuccessRows(v)) = 1

\* C7: a Migrate() call that comes right after one that returned nil, with
\* the same configuration, destination and files, executes no migration
\* and no hook, writes no ledger row and returns nil.
C7_Idempotent ==
    (last.n >= 2 /\ prev.ret = "nil" /\ last.cfg = prev.cfgOut) =>
        /\ last.log = <<>>
        /\ last.writes = 0
        /\ last.ret = "nil"

\* the objects the hooks of a call created
HookObjectsOf(run) ==
    {HookObject(Hook(c.type, c.order, c.version)) :
        c \in {x \in Range(run.log) : x.op = "hook" /\ x.ok}}

\* an Up call to N >= 1 that returned nil, then a Down call to 0 that
\* returned nil, with a Down script for every version 1..N
UpThenDown ==
    /\ last.n >= 2
    /\ prev.ret = "nil" /\ ~prev.cfg.Down /\ prev.before = {}
    /\ Resolved(prev) /\ DestinationOf(prev) >= 1
    /\ last.ret = "nil" /\ last.cfg.Down
    /\ Resolved(last) /\ DestinationOf(last) = 0
    /\ 1 .. DestinationOf(prev) \subseteq downFiles

\* C8: after Migrate Up to N and Migrate Down to 0, both returning nil,
\* the ledger has no rows and the objects created by the hooks of the Up
\* run still exist.
C8_RoundTrip ==
    UpThenDown =>
        /\ ledger = {}
        /\ HookObjectsOf(prev) \subseteq objects


(***************************************************************************)
(* Claims about Repair, checked under SpecRepair.                          *)
(***************************************************************************)
\* a Repair call on an existing ledger table returned without error
Repaired == rep.n >= 1 /\ historyTable /\ rep.errs = {}

\* the mismatch errors ValidateMigrations now reports for the local files
MismatchesNow ==
    OfKind(ValidateMigrations(driver, historyTable, ledger, LocalUp(upFiles)),
           "mismatch")

\* C11: after Repair(locals) on an existing ledger table with no per-row
\* error, every local Up migration has a success=true row with its
\* description and checksum, ValidateMigrations(locals) reports no mismatch
\* for those versions and GetFailingMigrations returns none of them.
C11_RepairForcesSuccess ==
    Repaired =>
        /\ \A m \in upFiles :
              LedgerRow(m.version, m.description, m.checksum, TRUE)
                 \in {[r EXCEPT !.repaired_at = 0] : r \in ledger}
        /\ \A m \in upFiles :
              /\ \A i \in 1 .. Len(MismatchesNow) :
                    MismatchesNow[i].version # m.version
              /\ \A failingMigrations \in
                       GetFailingMigrations(historyTable, ledger) :
                    m.version \notin Range(failingMigrations)

\* what one clean Repair call does to repaired_at: stamped with the time of
\* the call for inserted rows and rows whose description or checksum
\* differed, kept for the others
StampedOnlyOnChange ==
    \A r \in ledger :
        LET old == {o \in rep.before : o.version = r.version}
            mine == {m \in upFiles : m.version = r.version}
        IN IF mine = {} THEN r \in rep.before
           ELSE IF old = {} THEN r.repaired_at = rep.at
           ELSE \A o \in old :
                   r.repaired_at =
                      IF \E m \in mine : \/ m.description # o.description
                                         \/ m.checksum # o.md5_checksum
                      THEN rep.at ELSE o.repaired_at

\* C12: Repair stamps repaired_at with the current time only for rows it
\* inserts or whose stored description or checksum differs from the local
\* one and keeps the previous repaired_at otherwise, so a second Repair
\* with the same locals leaves every ledger row unchanged.
C12_RepairedAtOnlyOnChange ==
    /\ Repaired => StampedOnlyOnChange
    /\ (Repaired /\ rep.n >= 2 /\ rep.prevErrs = {}) => ledger = rep.before

C12_Witness ==
    /\ Repaired /\ rep.n >= 2 /\ rep.prevErrs = {}
    /\ ledger = rep.before
    /\ \E r \in ledger : r.repaired_at = rep.at - 1
    /\ \E r \in ledger : r.repaired_at = 1


(***************************************************************************)
(* Claims about the execute phase of Migrate, checked under SpecMigrate.   *)
(***************************************************************************)
\* the last Migrate() call reached migrateUp or migrateDown
Executed == last.n >= 1 /\ last.differed

\* the positions of the calls of the last run that returned an error
FailedCalls == {i \in 1 .. Len(last.log) : ~last.log[i].ok}

\* the positions of the ExecuteMigration calls of the last run
MigrateCalls == {i \in 1 .. Len(last.log) : last.log[i].op = "migrate"}

\* C13: with Force=false, once a hook or migration step of a run returns an
\* error no further hook or migration is executed in that Migrate() call,
\* and Migrate returns a non-nil error.
C13_StopsAtFirstError ==
    (Executed /\ ~last.cfg.Force) =>
        \A i \in FailedCalls : i = Len(last.log) /\ last.ret = "error"

\* a migration below the destination failed, with later ones on disk
C13_Witness ==
    /\ Executed /\ ~last.cfg.Force /\ ~last.cfg.Down
    /\ FailedCalls = {Len(last.log)}
    /\ last.log[Len(last.log)].op = "migrate"
    /\ \E m \in upFiles :
          /\ m.version > last.log[Len(last.log)].version
          /\ m.version <= Deref(last.cfgOut.Destination)
    /\ last.ret = "error"

\* the local Up versions of the range (latest, destination] of the last run
InRange ==
    {m.version : m \in upFiles} \cap
       ((last.latest + 1) .. Deref(last.cfgOut.Destination))

C15_TransactionRollsBack ==
    [][(/\ last'.n = last.n + 1
        /\ last'.cfg.InTransaction
        /\ last'.differed
        /\ Len(last'.errs) > 0)
       => (/\ ledger' = ledger
           /\ objects' = objects
           /\ last'.ret = "error")]_vars

\* a forced run in a transaction that executed a migration, failed in a
\* later one and left the ledger as it was
C15_Witness ==
    /\ Executed /\ last.cfg.InTransaction /\ last.cfg.Force
    /\ Len(last.errs) > 0
    /\ \E i, j \in MigrateCalls : i < j /\ last.log[i].ok /\ ~last.log[j].ok
    /\ ledger = last.before
    /\ \A r \in ledger : r.success
    /\ last.ret = "error"


(***************************************************************************)
(* Claims about the order of hooks, checked under SpecMigrate.             *)
(***************************************************************************)
\* the place of a call inside the steps of one migration
Rank(e) ==
    CASE e.op = "migrate" -> 4
      [] e.type = "before" -> 0
      [] e.type = "repeatable" -> 1
      [] e.type = "before_each" -> 2
      [] e.type = "before_version" -> 3
      [] e.type = "after_version" -> 5
      [] e.type = "after_each" -> 6
      [] e.type = "after" -> 7
      [] OTHER -> 8

\* the last Migrate() call was an Up run with every hook kind enabled
UpRunAllHooks ==
    /\ Executed /\ ~last.cfg.Down
    /\ last.cfg.UseBefore /\ last.cfg.UseAfter /\ last.cfg.UseBeforeEach
    /\ last.cfg.UseAfterEach /\ last.cfg.UseBeforeVersion
    /\ last.cfg.UseAfterVersion /\ last.cfg.UseRepeatable

\* call b may directly follow call a: later in the same migration, the
\* next hook of the same kind, the start of the next migration, or the
\* After hooks of a run without migration in range
FollowsInOrder(a, b) ==
    \/ Rank(a) < Rank(b) /\ (Rank(b) <= 4 \/ Rank(a) >= 4)
    \/ Rank(a) = Rank(b) /\ a.op = "hook" /\ a.order < b.order
    \/ Rank(a) \in {4, 5, 6} /\ Rank(b) \in {1, 2, 3, 4}
    \/ Rank(a) = 0 /\ Rank(b) = 7

\* the hooks of one kind called between two positions of the log
Between(lo, hi, type) ==
    {i \in lo + 1 .. hi - 1 : last.log[i].type = type}

MigrateBefore(i) ==
    LET S == {j \in MigrateCalls : j < i} IN IF S = {} THEN 0 ELSE Max(S)
MigrateAfter(i) ==
    LET S == {j \in MigrateCalls : j > i}
    IN IF S = {} THEN Len(last.log) + 1 ELSE Min(S)

\* C16: in an Up run with all hook kinds enabled the Before hooks run
\* before any migration; for each migration v the calls are BeforeEach,
\* BeforeVersion(v), ExecuteMigration(v), AfterVersion(v), AfterEach; the
\* After hooks run once after the last migration; hooks of one kind run in
\* ascending Order and a version-scoped hook runs only for the migration of
\* its version.
C16_UpRunOrder ==
    UpRunAllHooks =>
        LET run == last.log IN
        /\ \A i \in 1 .. Len(run) - 1 : FollowsInOrder(run[i], run[i + 1])
        /\ \A i \in 1 .. Len(run) :
              /\ run[i].type = "before" => MigrateBefore(i) = 0
              /\ run[i].type = "after" => MigrateAfter(i) = Len(run) + 1
              /\ run[i].type = "before_version" =>
                    /\ MigrateAfter(i) <= Len(run) \/ FailedCalls # {}
                    /\ MigrateAfter(i) <= Len(run) =>
                          run[MigrateAfter(i)].version = run[i].version
              /\ run[i].type = "after_version" =>
                    /\ MigrateBefore(i) > 0
                    /\ run[MigrateBefore(i)].version = run[i].version
        /\ (FailedCalls = {} /\ hookFiles = AllHooks) =>
              /\ \A i \in MigrateCalls :
                    /\ Between(MigrateBefore(i), i, "before_each") # {}
                    /\ Between(i, MigrateAfter(i), "after_each") # {}
                    /\ (run[i].version = 2) =
                          (Between(MigrateBefore(i), i, "before_version") # {})
                    /\ (run[i].version = 2) =
                          (Between(i, MigrateAfter(i), "after_version") # {})
              /\ Cardinality(Between(0, Len(run) + 1, "before")) = 2
              /\ Cardinality(Between(0, Len(run) + 1, "after")) = 1

\* V1, V2 and V3 applied in one run with every hook of AllHooks
C16_Witness ==
    /\ UpRunAllHooks /\ hookFiles = AllHooks /\ FailedCalls = {}
    /\ {last.log[i].version : i \in MigrateCalls} = {1, 2, 3}
    /\ Cardinality(Between(0, Len(last.log) + 1, "before_version")) = 1
    /\ Cardinality(Between(0, Len(last.log) + 1, "after_each")) = 3
    /\ last.log[Len(last.log)].type = "after"


\* C17: the Repeatable hooks of an Up run are called strictly between
\* consecutive migrations: once between each pair of migrations applied one
\* after the other, never before the first migration applied in the run and
\* never after the last, whatever version the ledger starts at.
C17_RepeatableBetween ==
    (Executed /\ ~last.cfg.Down /\ last.cfg.UseRepeatable) =>
        /\ \A i \in 1 .. Len(last.log) :
              last.log[i].type = "repeatable" =>
                 /\ MigrateBefore(i) > 0
                 /\ MigrateAfter(i) <= Len(last.log) \/ FailedCalls # {}
        /\ (FailedCalls = {} /\ Hook("repeatable", 1, 0) \in hookFiles) =>
              \A i, j \in MigrateCalls :
                 MigrateAfter(i) = j =>
                    Cardinality(Between(i, j, "repeatable")) = 1


\* the positions of the RollbackMigration calls of the last run
RollbackCalls ==
    {i \in 1 .. Len(last.log) : last.log[i].op \in {"rollback", "absent", "exists"}}

\* C18: in a Down run with RepeatableDown hooks enabled the hooks run after
\* each rollback except the final one: nothing is executed after the last
\* RollbackMigration of the run, whatever Down scripts exist locally, and
\* a run of N rollbacks fires the hooks N-1 times.
C18_RepeatableDownBetween ==
    (Executed /\ last.cfg.Down /\ last.cfg.UseRepeatable) =>
        /\ \A i \in 1 .. Len(last.log) :
              last.log[i].type = "repeatable_down" =>
                 \/ \E j \in RollbackCalls : j > i
                 \/ FailedCalls # {}
        /\ (/\ FailedCalls = {}
            /\ Hook("repeatable_down", 1, 0) \in hookFiles
            /\ RollbackCalls # {}) =>
              Cardinality(Between(0, Len(last.log) + 1, "repeatable_down"))
                 = Cardinality(RollbackCalls) - 1


\* the versions of the success=true rows of a set of ledger rows
Succeeded(rows) == {r.version : r \in {x \in rows : x.success}}

\* the last call was a Down run that got to migrateDown: its destination
\* was below latest
DownRun ==
    /\ Executed /\ last.cfg.Down
    /\ Deref(last.cfgOut.Destination) < last.latest

\* the versions a Down run has to roll back: the local Down migrations in
\* (destination, latest]
DownRange ==
    downFiles \cap ((Deref(last.cfgOut.Destination) + 1) .. last.latest)

\* the versions of the RollbackMigration calls of the last run, in order
RolledBack == [i \in 1 .. Cardinality(RollbackCalls) |->
                  last.log[Ascending(RollbackCalls)[i]].version]

\* C33: a Down run rolls back, in descending version order, exactly the
\* locally known Down migrations with version in (destination, latest] and
\* none outside that range; when a Down script exists for each of those
\* versions and all succeed, the ledger afterwards holds exactly the
\* versions 1..destination and GetLatestMigration() equals the destination.
C33_DownReachesDestination ==
    DownRun =>
        /\ Range(RolledBack) \subseteq DownRange
        /\ \A i \in 1 .. Len(RolledBack) - 1 : RolledBack[i] > RolledBack[i + 1]
        /\ FailedCalls = {} => Range(RolledBack) = DownRange
        /\ (/\ FailedCalls = {}
            /\ last.ret = "nil"
            /\ (Deref(last.cfgOut.Destination) + 1) .. last.latest
                  \subseteq downFiles) =>
              /\ VersionsOf(ledger) = 1 .. Deref(last.cfgOut.Destination)
              /\ GetLatestMigration(TRUE, ledger)
                    = Deref(last.cfgOut.Destination)

\* the highest success=true version of the ledger the last call met
TopApplied ==
    IF Succeeded(last.before) = {} THEN 0 ELSE Max(Succeeded(last.before))

\* the success=false rows above it
FailedAbove == {r \in last.before : ~r.success /\ r.version > TopApplied}

\* C40: a Down run never rolls back a version greater than latest (the
\* highest success=true version): ledger rows with success=false above
\* latest are neither executed against nor deleted by Migrate() Down,
\* whatever the destination.
C40_DownStopsAtLatest ==
    (last.n >= 1 /\ last.cfg.Down) =>
        /\ \A i \in RollbackCalls : last.log[i].version <= TopApplied
        /\ FailedAbove \subseteq ledger

\* a Down run that rolled back applied versions under a failed row
C40_Witness ==
    /\ DownRun
    /\ FailedAbove # {}
    /\ last.ret = "nil"
    /\ \E i \in RollbackCalls : last.log[i].op = "rollback" /\ last.log[i].ok
    /\ VersionsOf(ledger) = VersionsOf(FailedAbove)

(***************************************************************************)
(* Claims about the Migrator between calls, checked under SpecMigrate.     *)
(***************************************************************************)
\* C20: Migrate() keeps no state between calls: the configuration of the
\* Migrator after a call, an unset Destination in particular, is the one
\* the caller supplied, so the next call resolves the destination afresh.
C20_ConfigUnchanged ==
    last.n >= 1 => last.cfgOut = last.cfg


(***************************************************************************)
(* Claims about the validation gate of Migrate, checked under SpecGate.    *)
(***************************************************************************)
\* the ledger has a failed row, or the local Up versions are not 1..n, or
\* the ledger versions have a hole, or a row differs from its local file
Invalid(rows, files) ==
    \/ \E r \in rows : ~r.success
    \/ VersionsOf(files) # 1 .. Cardinality(files)
    \/ VersionsOf(rows) # 1 .. Cardinality(rows)
    \/ \E r \in rows, m \in files :
          /\ r.version = m.version
          /\ r.description # m.description \/ r.md5_checksum # m.checksum

\* C19: with validation enabled, when the ledger holds a success=false
\* row, or the local Up versions are not contiguous from 1, or the ledger
\* has a gap or a drift mismatch against the local set, Migrate() returns a
\* non-nil error, executes no hook and no migration and leaves the ledger
\* unchanged, even with Force=true.
C19_ValidationGate ==
    (last.n >= 1 /\ last.cfg.Validate /\ Invalid(last.before, upFiles)) =>
        /\ last.ret = "error"
        /\ last.log = <<>>
        /\ ledger = last.before


(***************************************************************************)
(* Claims about the runs of Migrate that execute nothing.                  *)
(***************************************************************************)
\* the requested direction of the last call had no migration file
DirectionEmpty ==
    IF last.cfg.Down THEN downFiles = {} ELSE upFiles = {}

\* the destination the last call resolved
LastDestination == Deref(last.cfgOut.Destination)

\* latest equals the destination, or the destination lies on the wrong side
\* of latest for the requested direction
NothingToDo ==
    /\ ~DirectionEmpty
    /\ \/ last.latest = LastDestination
       \/ ~last.cfg.Down /\ LastDestination < last.latest
       \/ last.cfg.Down /\ LastDestination > last.latest

\* the last call ran nothing and changed nothing
NoOp == last.ret = "nil" /\ last.log = <<>> /\ ledger = last.before

\* the validations of the last call, when enabled, reported no error
ValidationPassed ==
    last.cfg.Validate =>
        \A failingMigrations \in GetFailingMigrations(TRUE, last.before) :
            ValidationErrors(driver, last.before, LoadUp(last.cfg, upFiles),
                             failingMigrations) = <<>>

LoadFailed(p) == pc[p] = "release" /\ fnErr[p] /\ stmts[p] = 0

\* C27: when the loader returns errors Migrate() returns them before any
\* database access: no lock is taken, no table is created or probed and no
\* statement is executed.
C27_LoadErrorsBeforeDatabase ==
    \A p \in Procs :
        LoadFailed(p) => /\ fnRuns[p] = 0
                         /\ probes[p] = 0
                         /\ ~HeldFor(p)

\* C28: every database operation of Migrate() happens between the lock
\* acquisition and the lock release of the same DoInLock call: a statement
\* is issued only by a callback that was entered in this call, after the
\* lock statement succeeded and before the release statement is sent.
C28_OperationsInsideLock ==
    [][\A p \in Procs :
          stmts'[p] > stmts[p] =>
             /\ pc[p] = "fn" /\ pc'[p] = "fn"
             /\ fnRuns[p] = 1
             /\ ret[p] = "none"
             /\ calls[p] >= 1]_vars

\* a callback that issued its statements and returned, release pending
C28_Witness ==
    \E p \in Procs :
        /\ pc[p] = "release" /\ stmts[p] = MaxStmts /\ fnRuns[p] = 1
        /\ \E q \in Procs \ {p} : pc[q] \in {"wait", "probe"}


\* the versions the errors of one kind returned by the last call name
Named(k) == {e.version : e \in Range(OfKind(last.errs, k))}

\* C29: when validation fails the error returned by Migrate() aggregates
\* all validation errors present: each failing row, the local contiguity
\* errors and each drifted success=true row are reported together.
C29_AggregatesAllErrors ==
    (last.n >= 1 /\ last.cfg.Validate /\ ~DirectionEmpty) =>
        /\ \A r \in last.before : ~r.success => r.version \in Named("failing")
        /\ VersionsOf(upFiles) # 1 .. Cardinality(upFiles) =>
              Len(OfKind(last.errs, "local")) > 0
        /\ \A r \in last.before, m \in upFiles :
              (/\ r.success /\ r.version = m.version
               /\ r.description # m.description \/ r.md5_checksum # m.checksum)
                  => r.version \in Named("mismatch")


(***************************************************************************)
(* Claims about the repository operations, checked under SpecTx.           *)
(***************************************************************************)
\* C22: DoInTransaction(fn) commits the transaction if and only if fn
\* returns nil (Commit is called on the handle exactly then, and a commit
\* that succeeds persists what fn executed); when fn returns an error every
\* statement fn executed through the repository is rolled back and that
\* error is returned.
C22_CommitIffNil ==
    [][(txn.pc = "fn" /\ txn'.pc = "idle") =>
          /\ ("Commit" \in Range(txn'.ops)) = (txn'.fnRet = "nil")
          /\ txn'.fnRet = "error" =>
                /\ txn'.ret = "error"
                /\ ledger' = txn.before.rows
                /\ objects' = txn.before.objects
          /\ (txn'.fnRet = "nil" /\ ~txn'.commitFailed /\ ~txn.work.aborted) =>
                /\ txn'.ret = "nil"
                /\ ledger' = txn.work.rows
                /\ objects' = txn.work.objects]_vars

\* fn executed a migration with success and returned an error: nothing of
\* it is left
C22_Witness ==
    /\ txn.pc = "idle" /\ txn.fnRet = "error" /\ txn.ret = "error"
    /\ call.name = "execute" /\ call.via = "tx" /\ call.errs = <<>>
    /\ call.afterTx = txn.n
    /\ call.version \in VersionsOf(txn.work.rows)
    /\ call.version \notin VersionsOf(ledger)
    /\ ledger = txn.before.rows

\* C23: whenever no DoInTransaction call is in progress the repository's
\* executor is the plain connection: after DoInTransaction returns by any
\* path (begin failure, fn error, fn panic, commit) statements issued
\* through the repository do not go through the finished transaction.
C23_ExecutorRestored ==
    /\ txn.pc = "idle" => queriable = "db"
    /\ (call.n >= 1 /\ ~call.inFn) => call.via = "db"

\* an operation called after fn panicked runs on the plain connection
C23_Witness ==
    /\ txn.pc = "idle" /\ txn.fnRet = "panic"
    /\ call.name = "execute" /\ ~call.inFn /\ call.afterTx = txn.n
    /\ call.via = "db" /\ call.errs = <<>>
    /\ call.version \in VersionsOf(ledger)

\* C24: GetLatestMigration returns the maximum version over the ledger rows
\* with success=true, ignoring success=false rows even of higher version,
\* and 0 when the ledger table is absent or has no success=true row.
C24_LatestIsMaxSuccess ==
    (call.name = "latest" /\ call.errs = <<>>) =>
        /\ Succeeded(call.before) # {} =>
              /\ call.result \in Succeeded(call.before)
              /\ \A v \in Succeeded(call.before) : v <= call.result
        /\ Succeeded(call.before) = {} => call.result = 0
        /\ ~historyTable => call.result = 0

\* version 1 applied, version 2 failed: latest is 1
C24_Witness ==
    /\ call.name = "latest" /\ call.errs = <<>> /\ call.result = 1
    /\ \E r \in call.before : r.version = 2 /\ ~r.success

\* the rows of a version
RowsOf(rows, v) == {r \in rows : r.version = v}

\* C25: ExecuteMigration(m) attempts the ledger write whether or not m's
\* script succeeded: outside a transaction, after it returns the ledger
\* holds exactly one row for m.Version (updated in place if one existed)
\* with the local description and checksum and success equal to whether
\* the script succeeded; a script failure and a ledger-write failure are
\* both returned.
C25_ExecuteRecordsOutcome ==
    (call.name = "execute" /\ call.via = "db") =>
        LET m == RowAt(RepoMigrations, call.version) IN
        /\ ~call.writeFails =>
              RowsOf(ledger, m.version) =
                 {[version |-> m.version, description |-> m.description,
                   md5_checksum |-> m.checksum, success |-> ~call.scriptFails,
                   repaired_at |-> 0]}
        /\ call.writeFails => ledger = call.before
        /\ ledger \ RowsOf(ledger, m.version)
              = call.before \ RowsOf(call.before, m.version)
        /\ Len(OfKind(call.errs, "script")) = (IF call.scriptFails THEN 1 ELSE 0)
        /\ Len(OfKind(call.errs, "ledger")) = (IF call.writeFails THEN 1 ELSE 0)
        /\ Len(call.errs) = Len(OfKind(call.errs, "script"))
                               + Len(OfKind(call.errs, "ledger"))

\* a failed script on a version that had a success=true row: the row is
\* updated in place to success=false
C25_Witness ==
    /\ call.name = "execute" /\ call.via = "db"
    /\ call.scriptFails /\ ~call.writeFails
    /\ \E r \in call.before :
          r.version = call.version /\ r.success /\ r.md5_checksum = "s2"
    /\ \E r \in ledger :
          r.version = call.version /\ ~r.success /\ r.md5_checksum = "s1"
    /\ Cardinality(ledger) = Cardinality(call.before)

C31_NoRollbackAfterCommit ==
    (txn.pc = "idle" /\ txn.n >= 1 /\ txn.handle # "none") =>
        /\ txn.fnRet = "nil" => txn.ops = <<"Commit">>
        /\ txn.fnRet = "error" => txn.ops = <<"Rollback">>

\* C32: no failure is swallowed: when committing the transaction fails
\* DoInTransaction, and with it Migrate(), returns a non-nil error; nil is
\* returned only when every step succeeded and its effects are persisted.
C32_CommitFailureReturned ==
    (txn.pc = "idle" /\ txn.n >= 1 /\ txn.handle # "none") =>
        /\ txn.commitFailed => txn.ret = "error"
        /\ txn.ret = "nil" => /\ ledger = txn.work.rows
                              /\ objects = txn.work.objects

\* C34: GetFailingMigrations returns exactly the ledger rows with
\* success=false, in ascending version order, and an empty result when the
\* ledger table is absent.
C34_FailingAscending ==
    (call.name = "failing" /\ call.errs = <<>>) =>
        /\ Range(call.failing) = {r.version : r \in {x \in call.before : ~x.success}}
        /\ Len(call.failing) = Cardinality(Range(call.failing))
        /\ \A i \in 1 .. Len(call.failing) - 1 :
              call.failing[i] < call.failing[i + 1]
        /\ ~historyTable => call.failing = <<>>

\* C36: every migration version representable as an unsigned 16-bit value
\* (1..65535) can be recorded in the ledger's version column and read back
\* from it without overflow or rejection.
C36_VersionFitsColumn ==
    /\ (call.name = "execute" /\ ~call.scriptFails) =>
          /\ call.errs = <<>>
          /\ \E r \in ledger : r.version = call.version /\ r.success
    /\ (call.name = "latest" /\ call.prev[1] = "execute"
                             /\ call.prev[2] \in Succeeded(call.before)) =>
          call.result >= call.prev[2]

\* C35: advisory-lock backend liveness: once the run holding the lock has
\* terminated, every other call blocked on the key eventually acquires the
\* lock and runs its callback (or its lock statement returns an error); no
\* caller stays blocked forever behind a run that has finished.
C35_BlockedCallersProceed ==
    \A q \in Procs :
        (pc[q] = "wait" /\ \A p \in Procs : pc[p] \notin {"fn", "release"})
            ~> (pc[q] # "wait")

(***************************************************************************)
(* Claims about recovery from a failed run, checked under SpecRecover.     *)
(***************************************************************************)
\* the step is a call of Migrate(), resp. of Repair
MigrateStep == last'.n = last.n + 1
RepairStep == rep'.n = rep.n + 1

\* the versions of the success=false rows
Failing(rows) == {r.version : r \in {x \in rows : ~x.success}}

\* the versions whose script the run of the step executed with success
AppliedBy(run) ==
    {run.log[i].version : i \in {j \in 1 .. Len(run.log) :
                                   run.log[j].op = "migrate" /\ run.log[j].ok}}

\* a non-transactional Up run without Force on a ledger without failed row
\* that failed at the script of version k leaves success=true rows for the
\* versions it applied and a success=false row for k
FailedRunRecorded ==
    (/\ MigrateStep /\ ~config.Down /\ ~config.InTransaction /\ ~config.Force
     /\ Failing(ledger) = {}
     /\ \E i \in 1 .. Len(last'.log) :
           last'.log[i].op = "migrate" /\ ~last'.log[i].ok) =>
        LET k == CHOOSE v \in VersionsOf(upFiles) :
                    \E i \in 1 .. Len(last'.log) :
                        /\ last'.log[i].op = "migrate" /\ ~last'.log[i].ok
                        /\ last'.log[i].version = v
        IN /\ last'.ret = "error"
           /\ Failing(ledger') = {k}
           /\ \A v \in AppliedBy(last') :
                 \E r \in ledger' : r.version = v /\ r.success
           /\ \A v \in AppliedBy(last') : v < k

\* while a failed row is in the ledger a validated Migrate() returns an
\* error and changes nothing
BlockedWhileFailing ==
    (MigrateStep /\ config.Validate /\ historyTable /\ Failing(ledger) # {}) =>
        /\ last'.ret = "error"
        /\ ledger' = ledger
        /\ objects' = objects
        /\ last'.log = <<>>

\* a Repair without statement error leaves no failed row
RepairClears ==
    (RepairStep /\ historyTable /\ rep'.errs = {}) =>
        GetFailingMigrations(historyTable, ledger') = {<<>>}

\* a validated Migrate() on the ledger a Repair without statement error
\* left does not return the error of the failed-rows check
ProceedsAfterRepair ==
    (/\ MigrateStep /\ config.Validate /\ historyTable
     /\ rep.n >= 1 /\ rep.errs = {}
     /\ ledger = Repair(driver, TRUE, rep.before, LocalUp(upFiles), rep.at,
                        {}).rows) =>
        OfKind(last'.errs, "failing") = <<>>

\* C30: after a non-transactional Up run without Force failed at version k
\* the ledger holds success=true rows for the versions applied before k and
\* a success=false row for k; every later Migrate() with validation enabled
\* returns an error and mutates nothing until Repair is run, after which
\* GetFailingMigrations is empty and Migrate proceeds.
C30_FailedRunBlocksUntilRepair ==
    [][/\ FailedRunRecorded
       /\ BlockedWhileFailing
       /\ RepairClears
       /\ ProceedsAfterRepair]_vars

\* a PostgreSQL Repair without statement error on an existing ledger table
\* runs no script and leaves every local version recorded as applied
RepairMarksLocals ==
    (/\ RepairStep /\ driver = "postgres" /\ historyTable
     /\ rep'.errs = {} /\ upFiles # {}) =>
        /\ objects' = objects
        /\ GetLatestMigration(historyTable', ledger') >=
              Max(VersionsOf(upFiles))
        /\ \A m \in upFiles :
              \E r \in ledger' : r.version = m.version /\ r.success

\* an Up Migrate() with unset destination on the ledger such a Repair left
\* executes no migration
NoMigrationAfterRepair ==
    (/\ MigrateStep /\ driver = "postgres" /\ historyTable
     /\ ~config.Down /\ config.Destination = NoDestination
     /\ upFiles # {} /\ rep.n >= 1 /\ rep.errs = {}
     /\ ledger = Repair(driver, TRUE, rep.before, LocalUp(upFiles), rep.at,
                        {}).rows) =>
        /\ \A i \in 1 .. Len(last'.log) : last'.log[i].op # "migrate"
        /\ objects' = objects

\* C38: Repair never executes migration SQL yet marks every local Up version
\* as applied: after Repair(locals) on an existing ledger table (PostgreSQL)
\* GetLatestMigration() is at least the highest local version, so a following
\* Migrate() Up with unset destination executes no migration, also for the
\* versions whose script never ran.
C38_RepairMarksApplied ==
    [][RepairMarksLocals /\ NoMigrationAfterRepair]_vars

\* a Migrate() that followed a Repair of an empty ledger table executed
\* nothing although no script ever ran
C38_Witness ==
    /\ driver = "postgres"
    /\ rep.n = 1 /\ rep.errs = {} /\ rep.before = {}
    /\ last.n = 1 /\ last.tableBefore /\ ~last.cfg.Down
    /\ last.cfg.Destination = NoDestination
    /\ last.before = Repair(driver, TRUE, {}, LocalUp(upFiles), rep.at,
                            {}).rows
    /\ Cardinality(upFiles) >= 2
    /\ ledger = last.before
    /\ last.log = <<>>
    /\ objects = {}

(***************************************************************************)
(* Claims about the ledger table, checked under SpecTable.                 *)
(***************************************************************************)
\* the step is a call of GetLatestMigration or GetFailingMigrations
ReadStep == call'.n = call.n + 1

\* a transactional run that returned an error was rolled back: it leaves the
\* rows and the objects as they were
RolledBackRun ==
    (MigrateStep /\ config.InTransaction /\ last'.ret = "error") =>
        ledger' = ledger /\ objects' = objects

Contiguous(rows) ==
    VersionsOf(rows) = 1 .. Cardinality(VersionsOf(rows))

\* C37: Up runs preserve ledger contiguity: if before a Migrate() Up call
\* with validation enabled the ledger versions are exactly 1..L, then after
\* the call (whether it succeeds, fails with or without Force, and with or
\* without a transaction) the ledger versions are exactly 1..K for some
\* K >= L, with no gap.
C37_UpKeepsContiguity ==
    [][(/\ MigrateStep /\ config.Validate /\ ~config.Down
        /\ Contiguous(ledger)) =>
          /\ Contiguous(ledger')
          /\ Cardinality(VersionsOf(ledger')) >=
                Cardinality(VersionsOf(ledger))]_vars

=============================================================================
